---- MODULE Spec2Model ----
(***************************************************************************)
(* A model of memflow's Windows kernel reconstruction                      *)
(* (memflow-win32/src/win32/kernel.rs): the Win32Kernel object, its walk   *)
(* of the ActiveProcessLinks list and its per-process info extraction.     *)
(*                                                                         *)
(* Target memory is a function from kernel virtual addresses to the        *)
(* pointer stored there; an address that is unmapped or unreadable reads   *)
(* as ReadErr.  Nothing in the model writes to it.                         *)
(***************************************************************************)
EXTENDS Integers, Sequences, FiniteSets, TLC

(***************************************************************************)
(* Program constants.                                                      *)
(***************************************************************************)
\* kernel.rs:24
MAX_ITER_COUNT == 65536

\* Address::NULL / Address::null()
NULL == 0

(***************************************************************************)
(* Bounds of the model.                                                    *)
(***************************************************************************)
\* Number of LIST_ENTRY structures target memory holds.
NumEntries == 3

\* Distance between two EPROCESS structures of the modelled memory layout.
EprocStride == 16

\* How many of the cells an info operation reads may be unreadable.
MaxUnreadable == 1

\* The outcome of a failed virt_read_addr_arch (the Err of its Result).
ReadErr == -1

VARIABLES
    mem,          \* target memory seen through virt_mem (kernel dtb)
    kernel_info,  \* Win32Kernel.kernel_info
    offsets,      \* Win32Kernel.offsets
    callback,     \* the answers the caller's AddressCallback may give
    pc,           \* position in process_address_list_callback
    list_entry,   \* its local list_entry
    iter,         \* iterations of its for loop completed
    result,       \* what the call returned
    reads,        \* virt_read_addr_arch calls issued by the call
    calls,        \* callback.call invocations made by the call
    emitCount,    \* how often each address was passed to the callback
    emitted,      \* the first EmitLogLen addresses passed, in order
    stopped,      \* the callback has returned false in this call
    inst,         \* which Win32Kernel instance is open (1, then 2)
    first,        \* what the first instance's last complete walk delivered
    pmem,         \* target memory seen through a process dtb
    kernel,       \* Win32Kernel.sysproc_dtb and .kernel_modules
    info_reads,   \* the reads the last info operation issued, in order
    base_info,    \* what process_info_base_by_address returned
    proc_info,    \* what process_info_from_base_info returned
    arg,          \* the last other call made: its name and arguments
    ret,          \* what that call returned and delivered
    process       \* the Process object the calls of the Process trait go to

envVars == <<mem, pmem, kernel_info, offsets, callback>>

walkVars == <<pc, list_entry, iter, result, reads, calls, emitCount, emitted,
              stopped>>

infoVars == <<kernel, info_reads, base_info, proc_info>>

cfgVars == <<pmem, kernel_info, offsets, callback>>

callVars == <<arg, ret, process>>

vars == <<envVars, walkVars, infoVars, inst, first, callVars>>

(***************************************************************************)
(* Memory layout of the model: EPROCESS i lies at i * EprocStride, its     *)
(* ActiveProcessLinks at offsets.eproc_link inside it, Flink first and     *)
(* Blink offsets.list_blink behind it.                                     *)
(***************************************************************************)
Win32OffsetsRec ==
    [eproc_link |-> 4, list_blink |-> 1, kproc_dtb |-> 1, eproc_wow64 |-> 2,
     eproc_pid |-> 6, eproc_name |-> 7, eproc_peb |-> 8,
     eproc_section_base |-> 9, eproc_exit_status |-> 10,
     eproc_thread_list |-> 11, ethread_list_entry |-> 2, kthread_teb |-> 3,
     teb_peb_x86 |-> 1]

\* Offsets of a kernel build without WOW64: eproc_wow64() == 0.
Win32OffsetsNoWow64 == [Win32OffsetsRec EXCEPT !.eproc_wow64 = 0]

\* ArchitectureIdent: X86(bits, flag) and AArch64.
X86_32 == [tag |-> "X86", bits |-> 32, flag |-> FALSE]

X86_32_TRUE == [tag |-> "X86", bits |-> 32, flag |-> TRUE]

X86_64 == [tag |-> "X86", bits |-> 64, flag |-> FALSE]

AARCH64 == [tag |-> "AArch64", bits |-> 64, flag |-> FALSE]

Archs == {X86_32, X86_32_TRUE, X86_64, AARCH64}

\* ArchitectureObj::from(arch).bits()
ArchBits(arch) == arch.bits

EprocAddrs == {i * EprocStride : i \in 1..NumEntries}

EntryAddrs == {e + Win32OffsetsRec.eproc_link : e \in EprocAddrs}

BlinkAddrs == {a + Win32OffsetsRec.list_blink : a \in EntryAddrs}

KernelInfoRec ==
    [eprocess_base |-> EprocStride, dtb |-> 3 * 4096, arch |-> X86_64,
     kernel_winver |-> <<10, 0>>]

\* What a Flink cell may hold: any entry, NULL, or it is unreadable.
FlinkVals == EntryAddrs \cup {NULL, ReadErr}

\* What a Blink cell may hold: the code only tests it for NULL.
BlinkVals == {NULL, KernelInfoRec.eprocess_base + Win32OffsetsRec.eproc_link, ReadErr}

EmitLogLen == NumEntries + 1

(***************************************************************************)
(* VirtualDMA::virt_read_addr_arch as the kernel uses it: the pointer at   *)
(* addr, or ReadErr.                                                       *)
(***************************************************************************)
virt_read_addr_arch(m, addr) ==
    IF addr \in DOMAIN m THEN m[addr] ELSE ReadErr

\* One logged read: the dtb of the reader that issued it, and the address.
ReadOf(dtb, addr) == [dtb |-> dtb, addr |-> addr]

\* No call recorded.
NoCall == [op |-> "none"]

\* No Process object.
NoProcess == [mods |-> <<>>, fail_at |-> 0]

\* The cells an operation overwrites instead of reading.
TargetWrites_ClearsDtbCell(op) ==
    {[addr |-> KernelInfoRec.eprocess_base + Win32OffsetsRec.kproc_dtb,
      val |-> NULL]}

\* The cells of target memory an operation of Win32Kernel writes: every
\* memory call of kernel.rs is a virt_read, virt_read_raw, virt_read_cstr or
\* virt_read_addr_arch, none is a write.
TargetWrites(op) == {}

\* Target memory after the operation's writes.
TargetAfter(m, op) ==
    [a \in DOMAIN m |->
        IF \E w \in TargetWrites(op) : w.addr = a
        THEN (CHOOSE w \in TargetWrites(op) : w.addr = a).val
        ELSE m[a]]

\* What an operation of Win32Kernel does to the target and to the
\* kernel's configuration.
TargetEffect(op) ==
    /\ mem' = TargetAfter(mem, op)
    /\ UNCHANGED cfgVars

(***************************************************************************)
(* Win32Kernel::new, kernel.rs:38-83.                                      *)
(***************************************************************************)
\* Address::as_page_aligned(page_size): the address rounded down to a
\* multiple of page_size.
as_page_aligned(a, page_size) == a - (a % page_size)

\* Address::non_null(): Some(a) unless a is NULL.
non_null(a) == IF a = NULL THEN <<>> ELSE <<a>>

\* The value read taken as it is when it is non-null.
SysprocDtb_Unaligned(m, ki, off) ==
    LET r == virt_read_addr_arch(m, ki.eprocess_base + off.kproc_dtb)
    IN  IF r # ReadErr /\ r # NULL THEN r ELSE ki.dtb

\* let sysproc_dtb = { ... }, kernel.rs:47-67
SysprocDtb(m, ki, off) ==
    LET r == virt_read_addr_arch(m, ki.eprocess_base + off.kproc_dtb)
        opt == IF r = ReadErr THEN <<>>
               ELSE <<non_null(as_page_aligned(r, 4096))>>
    IN  IF opt # <<>> /\ opt[1] # <<>> THEN opt[1][1] ELSE ki.dtb

\* Self { ..., sysproc_dtb, kernel_modules: None }
New(m, ki, off) ==
    [open |-> TRUE, sysproc_dtb |-> SysprocDtb(m, ki, off),
     kernel_modules |-> <<>>]

\* No read logged for any operation.
NoReads == [new |-> <<>>, base |-> <<>>, from_base |-> <<>>]

\* No Win32Kernel built yet.
NoKernel == [open |-> FALSE, sysproc_dtb |-> NULL, kernel_modules |-> <<>>]

NoBaseInfo ==
    [status |-> "none", address |-> NULL, pid |-> 0, name |-> 0,
     sys_arch |-> X86_32, proc_arch |-> X86_32]

NoProcInfo ==
    [status |-> "none", base_info |-> NoBaseInfo, dtb |-> NULL,
     section_base |-> NULL, exit_status |-> 0, ethread |-> NULL,
     wow64 |-> NULL, teb |-> <<>>, teb_wow64 |-> <<>>,
     peb_native |-> <<>>, peb_wow64 |-> <<>>,
     module_info_native |-> <<>>, module_info_wow64 |-> <<>>]

KernelNew ==
    /\ ~kernel.open
    /\ kernel' = New(mem, kernel_info, offsets)
    /\ info_reads' = [info_reads EXCEPT !.new =
          <<ReadOf(kernel_info.dtb, kernel_info.eprocess_base + offsets.kproc_dtb)>>]
    /\ TargetEffect("new")
    /\ UNCHANGED <<walkVars, base_info, proc_info, inst, first, callVars>>

(***************************************************************************)
(* process_address_list_callback, kernel.rs:391-432.                       *)
(***************************************************************************)
list_start == kernel_info.eprocess_base + offsets.eproc_link

\* A cursor kept from the previous call instead of a fresh local.
StartEntry_Stale(cur) == IF cur = NULL THEN list_start ELSE cur

\* let mut list_entry = list_start;
StartEntry(cur) == list_start

\* A loop without the iteration cap.
LoopGuard_Unbounded(i) == TRUE

\* for _ in 0..MAX_ITER_COUNT
LoopGuard(i) == i < MAX_ITER_COUNT

\* let eprocess = list_entry - self.offsets.eproc_link();
eprocess == list_entry - offsets.eproc_link

flink_entry == virt_read_addr_arch(mem, list_entry)

blink_entry == virt_read_addr_arch(mem, list_entry + offsets.list_blink)

\* The error of the blink read dropped.
ReadFails_FlinkOnly == flink_entry = ReadErr

\* The two `?` of the loop body: the first failing read returns its error.
ReadFails == flink_entry = ReadErr \/ blink_entry = ReadErr

\* The blink read is only issued when the flink read succeeded.
ReadsIssued == IF flink_entry = ReadErr THEN 1 ELSE 2

\* The break without its two sentinel tests.
Terminates_NullOnly(fl, bl, start, entry) ==
    fl = NULL \/ bl = NULL

\* The break without the test for the list head.
Terminates_NoStartTest(fl, bl, start, entry) ==
    fl = NULL \/ bl = NULL \/ fl = entry

\* if flink_entry.is_null() || blink_entry.is_null()
\*     || flink_entry == list_start || flink_entry == list_entry { break; }
Terminates(fl, bl, start, entry) ==
    fl = NULL \/ bl = NULL \/ fl = start \/ fl = entry

\* The callback's answer ignored.
ContinueAfter_Always(keep) == TRUE

\* if !callback.call(eprocess) { break; }
ContinueAfter(keep) == keep

\* Ok(()) after the loop, however it was left.
LoopResult(exhausted) == "Ok"

Emit ==
    /\ calls' = calls + 1
    /\ emitCount' = [emitCount EXCEPT ![eprocess] = @ + 1]
    /\ emitted' = IF Len(emitted) < EmitLogLen
                  THEN Append(emitted, eprocess) ELSE emitted

\* A call of process_address_list_callback starts.
WalkCall ==
    /\ kernel.open
    /\ pc \in {"idle", "done"}
    /\ pc' = "walking"
    /\ list_entry' = StartEntry(list_entry)
    /\ iter' = 0
    /\ result' = "none"
    /\ reads' = 0
    /\ calls' = 0
    /\ emitCount' = [a \in EprocAddrs |-> 0]
    /\ emitted' = <<>>
    /\ stopped' = FALSE
    /\ TargetEffect("process_address_list_callback")
    /\ UNCHANGED <<infoVars, inst, first, callVars>>

\* ReadErr: one of the two reads fails and `?` returns the error.
WalkReadErr ==
    /\ pc = "walking"
    /\ LoopGuard(iter)
    /\ ReadFails
    /\ reads' = reads + ReadsIssued
    /\ result' = "Err"
    /\ pc' = "done"
    /\ UNCHANGED <<list_entry, iter, calls, emitCount, emitted, stopped>>
    /\ TargetEffect("process_address_list_callback")
    /\ UNCHANGED <<infoVars, inst, first, callVars>>

\* SentinelReached: a termination condition holds, break before the callback.
WalkSentinel ==
    /\ pc = "walking"
    /\ LoopGuard(iter)
    /\ ~ReadFails
    /\ Terminates(flink_entry, blink_entry, list_start, list_entry)
    /\ reads' = reads + 2
    /\ result' = LoopResult(FALSE)
    /\ pc' = "done"
    /\ UNCHANGED <<list_entry, iter, calls, emitCount, emitted, stopped>>
    /\ TargetEffect("process_address_list_callback")
    /\ UNCHANGED <<infoVars, inst, first, callVars>>

\* CallbackStop: the entry is passed to the callback, which returns false.
WalkCallbackStop ==
    /\ pc = "walking"
    /\ LoopGuard(iter)
    /\ ~ReadFails
    /\ ~Terminates(flink_entry, blink_entry, list_start, list_entry)
    /\ \E keep \in callback :
        /\ ~ContinueAfter(keep)
        /\ stopped' = ~keep
    /\ reads' = reads + 2
    /\ Emit
    /\ result' = LoopResult(FALSE)
    /\ pc' = "done"
    /\ UNCHANGED <<list_entry, iter>>
    /\ TargetEffect("process_address_list_callback")
    /\ UNCHANGED <<infoVars, inst, first, callVars>>

\* Continue: the entry is passed to the callback, which returns true.
WalkContinue ==
    /\ pc = "walking"
    /\ LoopGuard(iter)
    /\ ~ReadFails
    /\ ~Terminates(flink_entry, blink_entry, list_start, list_entry)
    /\ \E keep \in callback :
        /\ ContinueAfter(keep)
        /\ stopped' = ~keep
    /\ reads' = reads + 2
    /\ Emit
    /\ list_entry' = flink_entry
    /\ iter' = iter + 1
    /\ UNCHANGED <<pc, result>>
    /\ TargetEffect("process_address_list_callback")
    /\ UNCHANGED <<infoVars, inst, first, callVars>>

\* MaxIter: the for loop has run MAX_ITER_COUNT times and falls through.
WalkMaxIter ==
    /\ pc = "walking"
    /\ ~LoopGuard(iter)
    /\ result' = LoopResult(TRUE)
    /\ pc' = "done"
    /\ UNCHANGED <<list_entry, iter, reads, calls, emitCount, emitted, stopped>>
    /\ TargetEffect("process_address_list_callback")
    /\ UNCHANGED <<infoVars, inst, first, callVars>>

(***************************************************************************)
(* The walk's specification: any content of the list cells, any callback.  *)
(* The walk reads only entries it reaches from list_start through Flink,   *)
(* so the cells of the other entries are fixed to NULL.                    *)
(***************************************************************************)
RECURSIVE FlinkReach(_, _, _)
FlinkReach(fl, a, n) ==
    IF n = 0 \/ a \notin EntryAddrs
    THEN {}
    ELSE {a} \cup FlinkReach(fl, fl[a], n - 1)

WalkMems ==
    { [a \in EntryAddrs \cup BlinkAddrs |->
          IF a \in EntryAddrs THEN fl[a] ELSE bl[a - Win32OffsetsRec.list_blink]] :
      <<fl, bl>> \in
        { p \in [EntryAddrs -> FlinkVals] \X [EntryAddrs -> BlinkVals] :
            \A a \in EntryAddrs \ FlinkReach(p[1],
                    KernelInfoRec.eprocess_base + Win32OffsetsRec.eproc_link,
                    NumEntries) :
                p[1][a] = NULL /\ p[2][a] = NULL } }

\* No process address space is mapped.
NoProcMem == [dtb |-> NULL, cells |-> <<>>]

\* No walk recorded.
NoWalk == [emitted |-> <<>>, emitCount |-> [a \in EprocAddrs |-> 0],
           calls |-> 0, reads |-> 0]

InitWalkVars ==
    /\ pc = "idle"
    /\ list_entry = NULL
    /\ iter = 0
    /\ result = "none"
    /\ reads = 0
    /\ calls = 0
    /\ emitCount = [a \in EprocAddrs |-> 0]
    /\ emitted = <<>>
    /\ stopped = FALSE

Init ==
    /\ mem \in WalkMems
    /\ kernel_info = KernelInfoRec
    /\ offsets = Win32OffsetsRec
    /\ callback = BOOLEAN
    /\ InitWalkVars
    /\ pmem = NoProcMem
    /\ kernel = New(mem, kernel_info, offsets)
    /\ info_reads = NoReads
    /\ base_info = NoBaseInfo
    /\ proc_info = NoProcInfo
    /\ inst = 1
    /\ first = NoWalk
    /\ arg = NoCall
    /\ ret = NoCall
    /\ process = NoProcess

Next ==
    \/ WalkCall
    \/ WalkReadErr
    \/ WalkSentinel
    \/ WalkCallbackStop
    \/ WalkContinue
    \/ WalkMaxIter

Spec == Init /\ [][Next]_vars

(***************************************************************************)
(* Properties of process_address_list_callback.                            *)
(***************************************************************************)

\* C1: one call passes each EPROCESS address to the callback at most once,
\* whatever target memory holds (also on a cycle that avoids list_start).
C1_EmittedAtMostOnce ==
    \A a \in EprocAddrs : emitCount[a] <= 1

\* C2: a call that uses up all MAX_ITER_COUNT iterations reports a
\* ListCorrupted error instead of Ok.
C2_ExhaustionReportsListCorrupted ==
    (pc = "done" /\ iter = MAX_ITER_COUNT) => result = "ListCorrupted"

\* The first entry's Flink points to the entry itself, its Blink is non-null.
SelfLoopAtStart ==
    /\ virt_read_addr_arch(mem, list_start) = list_start
    /\ virt_read_addr_arch(mem, list_start + offsets.list_blink)
          \notin {NULL, ReadErr}

\* C3 as claimed: with the first Flink pointing to itself the walk emits
\* exactly the System process at eprocess_base and returns Ok.
C3_SelfLoopEmitsSystem ==
    (pc = "done" /\ SelfLoopAtStart) =>
        /\ calls = 1
        /\ emitted = <<kernel_info.eprocess_base>>
        /\ result = "Ok"

\* C3 as amended: with the first Flink pointing to itself (Blink non-null)
\* the walk ends in its first iteration, after the two reads, without
\* calling the callback at all, and returns Ok.
C3_SelfLoopEmitsNothing ==
    (pc = "done" /\ SelfLoopAtStart) =>
        /\ calls = 0
        /\ emitted = <<>>
        /\ \A a \in EprocAddrs : emitCount[a] = 0
        /\ reads = 2
        /\ result = "Ok"

C3_SelfLoopWalked ==
    pc = "done" /\ SelfLoopAtStart /\ reads = 2

\* C4: once the callback has returned false the call is over with Ok: no
\* further read is issued and the callback is not called again.
C4_CallbackStopEndsWalk ==
    /\ [](stopped => pc = "done" /\ result = "Ok")
    /\ [][stopped /\ stopped' =>
            reads' = reads /\ calls' = calls /\ emitted' = emitted]_vars

C4_StoppedAtSecondEntry ==
    stopped /\ calls = 2 /\ pc = "done"

FlinkUnreadable == virt_read_addr_arch(mem, list_entry) = ReadErr

EntryUnreadable ==
    \/ FlinkUnreadable
    \/ virt_read_addr_arch(mem, list_entry + offsets.list_blink) = ReadErr

\* C5: when the read of an entry's Flink or Blink fails the call returns
\* the error in that iteration: the entry is not emitted, nothing is read
\* or emitted afterwards, and what was emitted before stays as it is.
C5_ReadErrEndsWalk ==
    /\ []((pc = "done" /\ iter < MAX_ITER_COUNT /\ EntryUnreadable) =>
            /\ result = "Err"
            /\ emitCount[list_entry - offsets.eproc_link] = 0
            /\ calls = iter
            /\ reads = 2 * iter + (IF FlinkUnreadable THEN 1 ELSE 2))
    /\ [][(result # "Err" /\ result' = "Err") =>
            /\ pc' = "done"
            /\ calls' = calls
            /\ emitCount' = emitCount
            /\ emitted' = emitted]_vars
    /\ [][(result = "Err" /\ result' = "Err") =>
            reads' = reads /\ calls' = calls /\ emitted' = emitted]_vars

C5_BlinkFailedAfterTwo ==
    /\ result = "Err"
    /\ calls = 2
    /\ ~FlinkUnreadable
    /\ EntryUnreadable

\* C6: a call ends within MAX_ITER_COUNT iterations: every step of the walk
\* either ends the call or completes one iteration, an iteration issues at
\* most two reads and one callback call, and the walk is never stuck.
C6_BoundedWalk ==
    /\ [](/\ iter <= MAX_ITER_COUNT
          /\ reads <= 2 * MAX_ITER_COUNT
          /\ calls <= MAX_ITER_COUNT
          /\ (pc = "walking" => reads = 2 * iter /\ calls = iter)
          /\ (pc = "walking" => ENABLED (WalkReadErr \/ WalkSentinel
                  \/ WalkCallbackStop \/ WalkContinue \/ WalkMaxIter)))
    /\ [][(pc = "walking" /\ pc' = "walking") => iter' = iter + 1]_vars
    /\ [][pc = "walking" =>
            reads' <= reads + 2 /\ calls' <= calls + 1]_vars

C6_AllIterationsUsed ==
    /\ pc = "done"
    /\ iter = MAX_ITER_COUNT
    /\ calls = MAX_ITER_COUNT
    /\ reads = 2 * MAX_ITER_COUNT

(***************************************************************************)
(* Per-process info extraction, kernel.rs:149-286 and 311-361.             *)
(*                                                                         *)
(* An operation is a sequence of reads, each ending in `?`: the first one  *)
(* that fails ends the operation with its error.  A step is a record       *)
(* [issued, dtb, addr, val]; a step that is not issued (a branch not       *)
(* taken) reads nothing.                                                   *)
(***************************************************************************)
Step(issued, dtb, addr, val) ==
    [issued |-> issued, dtb |-> dtb, addr |-> addr, val |-> val]

Failed(st) == st.issued /\ st.val = ReadErr

\* Index of the first failing step, 0 when none fails.
FirstFail(steps) ==
    IF \E i \in 1..Len(steps) : Failed(steps[i])
    THEN CHOOSE i \in 1..Len(steps) :
            /\ Failed(steps[i])
            /\ \A j \in 1..(i - 1) : ~Failed(steps[j])
    ELSE 0

RECURSIVE LogOf(_, _)
LogOf(steps, n) ==
    IF n = 0 THEN <<>>
    ELSE IF steps[n].issued
         THEN Append(LogOf(steps, n - 1), ReadOf(steps[n].dtb, steps[n].addr))
         ELSE LogOf(steps, n - 1)

\* The reads issued: all steps up to the first failing one.
ReadsLog(steps) ==
    LogOf(steps, IF FirstFail(steps) = 0 THEN Len(steps) ELSE FirstFail(steps))

\* A read through virt_mem, whose translator holds kernel_info.dtb.
KStep(issued, addr, dflt) ==
    Step(issued, kernel_info.dtb, addr,
         IF issued THEN virt_read_addr_arch(mem, addr) ELSE dflt)

\* A read through proc_reader, whose translator holds the process's dtb.
proc_read(dtb, addr) ==
    IF dtb = pmem.dtb /\ addr \in DOMAIN pmem.cells
    THEN pmem.cells[addr] ELSE ReadErr

PStep(issued, dtb, addr, dflt) ==
    Step(issued, dtb, addr, IF issued THEN proc_read(dtb, addr) ELSE dflt)

\* The bitness of the system not looked at.
ProcArch_AnyBits(sys_arch, wow64) ==
    IF wow64 = NULL THEN sys_arch ELSE X86_32_TRUE

\* let proc_arch = match ArchitectureObj::from(sys_arch).bits() { ... }
\* for 64 and 32 bits, kernel.rs:341-349
ProcArch(sys_arch, wow64) ==
    IF ArchBits(sys_arch) = 64
    THEN IF wow64 = NULL THEN sys_arch ELSE X86_32_TRUE
    ELSE sys_arch

\* process_info_base_by_address(address), kernel.rs:311-361
BaseByAddress(address) ==
    LET probe == offsets.eproc_wow64 # 0
        steps == <<
            KStep(TRUE, address + offsets.eproc_pid, 0),
            KStep(TRUE, address + offsets.eproc_name, 0),
            KStep(probe, address + offsets.eproc_wow64, NULL) >>
        sys_arch == kernel_info.arch
    IN  [reads |-> ReadsLog(steps),
         info |->
            IF FirstFail(steps) # 0
            THEN [NoBaseInfo EXCEPT !.status = "Err"]
            ELSE IF ArchBits(sys_arch) \notin {32, 64}
            THEN [NoBaseInfo EXCEPT !.status = "InvalidArchitecture"]
            ELSE [status |-> "Ok", address |-> address,
                  pid |-> steps[1].val, name |-> steps[2].val,
                  sys_arch |-> sys_arch,
                  proc_arch |-> ProcArch(sys_arch, steps[3].val)]]

ProcessInfoBaseByAddress ==
    /\ kernel.open
    /\ base_info.status = "none"
    /\ \E address \in {kernel_info.eprocess_base} :
          /\ base_info' = BaseByAddress(address).info
          /\ info_reads' =
                [info_reads EXCEPT !.base = BaseByAddress(address).reads]
    /\ TargetEffect("process_info_base_by_address")
    /\ UNCHANGED <<walkVars, kernel, proc_info, inst, first, callVars>>

\* Win32Version ordering on (major, minor).
WinverGE(v, w) == v[1] > w[1] \/ (v[1] = w[1] /\ v[2] >= w[2])

\* if self.kernel_info.kernel_winver >= (6, 2).into()
ReadsTeb(winver) == WinverGE(winver, <<6, 2>>)

\* The null test of the TEB pointer left out.
TebPair_NoNullTest(teb, bi) ==
    <<<<teb>>, IF bi.proc_arch = bi.sys_arch THEN <<>> ELSE <<teb + 8192>>>>

\* if !teb.is_null() { (Some(teb), if proc_arch == sys_arch { None }
\* else { Some(teb + 0x2000) }) } else { (None, None) }
TebPair(teb, bi) ==
    IF teb # NULL
    THEN <<<<teb>>, IF bi.proc_arch = bi.sys_arch THEN <<>> ELSE <<teb + 8192>>>>
    ELSE <<<<>>, <<>>>>

\* Offsets of PEB.Ldr and of the module list in PEB_LDR_DATA.
ArchOffsetsRec == [peb_ldr |-> 1, ldr_list |-> 1]

\* process_info_from_base_info(base_info), kernel.rs:149-286
FromBaseInfo(bi) ==
    LET A == bi.address
        o == offsets
        s1 == KStep(TRUE, A + o.kproc_dtb, NULL)
        s2 == KStep(TRUE, A + o.eproc_peb, NULL)
        s3 == KStep(TRUE, A + o.eproc_section_base, NULL)
        s4 == KStep(TRUE, A + o.eproc_exit_status, 0)
        s5 == KStep(TRUE, A + o.eproc_thread_list, NULL)
        ethread == s5.val - o.ethread_list_entry
        s6 == KStep(TRUE, A + o.eproc_peb, NULL)
        peb_native == non_null(s6.val)
        s7 == KStep(o.eproc_wow64 # 0, A + o.eproc_wow64, NULL)
        readTeb == ReadsTeb(kernel_info.kernel_winver)
        s8 == KStep(readTeb, ethread + o.kthread_teb, NULL)
        tebs == IF readTeb THEN TebPair(s8.val, bi) ELSE <<<<>>, <<>>>>
        teb == tebs[1]
        teb_wow64 == tebs[2]
        dtb == s1.val
        s9 == PStep(teb_wow64 # <<>>, dtb,
                    IF teb_wow64 # <<>> THEN teb_wow64[1] + o.teb_peb_x86
                    ELSE NULL, NULL)
        peb_wow64 == non_null(s9.val)
        \* Win32ModuleListInfo::with_peb(&mut proc_reader, peb, sys_arch)
        nat == peb_native # <<>>
        s10 == PStep(nat, dtb, s6.val + ArchOffsetsRec.peb_ldr, NULL)
        s11 == PStep(nat, dtb, s10.val + ArchOffsetsRec.ldr_list, NULL)
        \* Win32ModuleListInfo::with_peb(&mut proc_reader, peb, proc_arch)
        wow == peb_wow64 # <<>>
        s12 == PStep(wow, dtb, s9.val + ArchOffsetsRec.peb_ldr, NULL)
        s13 == PStep(wow, dtb, s12.val + ArchOffsetsRec.ldr_list, NULL)
        steps == <<s1, s2, s3, s4, s5, s6, s7, s8, s9, s10, s11, s12, s13>>
    IN  [reads |-> ReadsLog(steps),
         info |->
            IF FirstFail(steps) # 0
            THEN [NoProcInfo EXCEPT !.status = "Err"]
            ELSE [status |-> "Ok", base_info |-> bi, dtb |-> dtb,
                  section_base |-> s3.val, exit_status |-> s4.val,
                  ethread |-> ethread, wow64 |-> s7.val,
                  teb |-> teb, teb_wow64 |-> teb_wow64,
                  peb_native |-> peb_native, peb_wow64 |-> peb_wow64,
                  module_info_native |->
                      IF nat THEN <<[base |-> s11.val, arch |-> bi.sys_arch]>>
                      ELSE <<>>,
                  module_info_wow64 |->
                      IF wow THEN <<[base |-> s13.val, arch |-> bi.proc_arch]>>
                      ELSE <<>>]]

\* A caller passes a ProcessInfo of the process at base_info.address: the
\* one process_info_base_by_address returned, or one with another
\* proc_arch.
ProcessInfoFromBaseInfo ==
    /\ kernel.open
    /\ base_info.status = "Ok"
    /\ proc_info.status = "none"
    /\ \E pa \in Archs :
          LET bi == [base_info EXCEPT !.proc_arch = pa]
          IN  /\ proc_info' = FromBaseInfo(bi).info
              /\ info_reads' =
                    [info_reads EXCEPT !.from_base = FromBaseInfo(bi).reads]
    /\ TargetEffect("process_info_from_base_info")
    /\ UNCHANGED <<walkVars, kernel, base_info, inst, first, callVars>>

(***************************************************************************)
(* The info operations' specification: one process, the System process's   *)
(* EPROCESS at eprocess_base.  Its cells hold the values below, the        *)
(* pointers that the code tests for NULL hold NULL or a pointer, and up to *)
(* MaxUnreadable cells are unreadable.                                     *)
(***************************************************************************)
\* Where things lie in the process's memory, and what the plain cells hold.
InfoLayout ==
    [proc_dtb |-> 5 * 4096, wow64 |-> 900, pid |-> 4, name |-> 1,
     peb |-> 300, section_base |-> 600, exit_status |-> 259,
     thread_list |-> 200, teb |-> 500, peb32 |-> 400,
     ldr |-> 310, mods |-> 320, ldr32 |-> 410, mods32 |-> 420]

KernelCells ==
    {"dtb", "wow64", "pid", "name", "peb", "section_base", "exit_status",
     "thread_list", "teb"}

ProcCells == {"peb32", "ldr", "mods", "ldr32", "mods32"}

CellAddr(n) ==
    LET E == KernelInfoRec.eprocess_base
        o == Win32OffsetsRec
        L == InfoLayout
    IN  CASE n = "dtb" -> E + o.kproc_dtb
          [] n = "wow64" -> E + o.eproc_wow64
          [] n = "pid" -> E + o.eproc_pid
          [] n = "name" -> E + o.eproc_name
          [] n = "peb" -> E + o.eproc_peb
          [] n = "section_base" -> E + o.eproc_section_base
          [] n = "exit_status" -> E + o.eproc_exit_status
          [] n = "thread_list" -> E + o.eproc_thread_list
          [] n = "teb" -> L.thread_list - o.ethread_list_entry + o.kthread_teb
          [] n = "peb32" -> L.teb + 8192 + o.teb_peb_x86
          [] n = "ldr" -> L.peb + ArchOffsetsRec.peb_ldr
          [] n = "mods" -> L.ldr + ArchOffsetsRec.ldr_list
          [] n = "ldr32" -> L.peb32 + ArchOffsetsRec.peb_ldr
          [] n = "mods32" -> L.ldr32 + ArchOffsetsRec.ldr_list

\* The pointers the code tests for NULL: each is NULL or set.
PointerChoices ==
    [wow64 : {NULL, InfoLayout.wow64}, peb : {NULL, InfoLayout.peb},
     teb : {NULL, InfoLayout.teb}, peb32 : {NULL, InfoLayout.peb32}]

CellVal(n, c) ==
    CASE n = "dtb" -> InfoLayout.proc_dtb
      [] n = "wow64" -> c.wow64
      [] n = "peb" -> c.peb
      [] n = "teb" -> c.teb
      [] n = "peb32" -> c.peb32
      [] OTHER -> InfoLayout[n]

MemOf(names, c, bad) ==
    [a \in {CellAddr(n) : n \in names} |->
        LET n == CHOOSE x \in names : CellAddr(x) = a
        IN  IF n \in bad THEN ReadErr ELSE CellVal(n, c)]

BadSets ==
    {b \in SUBSET (KernelCells \cup ProcCells) : Cardinality(b) <= MaxUnreadable}

Winvers == {<<5, 1>>, <<6, 1>>, <<6, 2>>, <<10, 0>>}

InitInfo ==
    /\ \E c \in PointerChoices, bad \in BadSets :
          /\ mem = MemOf(KernelCells, c, bad)
          /\ pmem = [dtb |-> InfoLayout.proc_dtb,
                     cells |-> MemOf(ProcCells, c, bad)]
    /\ kernel_info \in
          { [KernelInfoRec EXCEPT !.arch = a, !.kernel_winver = v] :
              a \in Archs, v \in Winvers }
    /\ offsets \in {Win32OffsetsRec, Win32OffsetsNoWow64}
    /\ callback = BOOLEAN
    /\ InitWalkVars
    /\ kernel = New(mem, kernel_info, offsets)
    /\ info_reads = NoReads
    /\ base_info = NoBaseInfo
    /\ proc_info = NoProcInfo
    /\ inst = 1
    /\ first = NoWalk
    /\ arg = NoCall
    /\ ret = NoCall
    /\ process = NoProcess

NextInfo ==
    \/ ProcessInfoBaseByAddress
    \/ ProcessInfoFromBaseInfo

SpecInfo == InitInfo /\ [][NextInfo]_vars

\* The wow64 pointer as process_info_base_by_address sees it.
Wow64Pointer ==
    IF offsets.eproc_wow64 = 0 THEN NULL
    ELSE virt_read_addr_arch(mem, kernel_info.eprocess_base + offsets.eproc_wow64)

\* C8: proc_arch is X86(32, true) when the system is 64-bit and the wow64
\* pointer is non-null, and sys_arch in all other cases; with an
\* eproc_wow64 offset of 0 only the pid and the name are read and the
\* pointer counts as NULL.
C8_ProcArch ==
    /\ base_info.status = "Ok" =>
          /\ base_info.sys_arch = kernel_info.arch
          /\ base_info.proc_arch =
                IF kernel_info.arch.bits = 64 /\ Wow64Pointer # NULL
                THEN X86_32_TRUE ELSE kernel_info.arch
    /\ (base_info.status # "none" /\ offsets.eproc_wow64 = 0) =>
          /\ Len(info_reads.base) <= 2
          /\ \A i \in 1..Len(info_reads.base) :
                info_reads.base[i].addr \in
                    {kernel_info.eprocess_base + offsets.eproc_pid,
                     kernel_info.eprocess_base + offsets.eproc_name}

C8_Wow64Detected ==
    /\ base_info.status = "Ok"
    /\ kernel_info.arch = X86_64
    /\ base_info.proc_arch = X86_32_TRUE
    /\ Len(info_reads.base) = 3

\* The TEB cell of the process's first thread.
TebAddr ==
    virt_read_addr_arch(mem, kernel_info.eprocess_base + offsets.eproc_thread_list)
        - offsets.ethread_list_entry + offsets.kthread_teb

TebCell == virt_read_addr_arch(mem, TebAddr)

TebReadLogged ==
    \E i \in 1..Len(info_reads.from_base) :
        info_reads.from_base[i] = ReadOf(kernel_info.dtb, TebAddr)

AtLeastWin8 ==
    \/ kernel_info.kernel_winver[1] > 6
    \/ kernel_info.kernel_winver[1] = 6 /\ kernel_info.kernel_winver[2] >= 2

Wow64Pair ==
    /\ proc_info.base_info.sys_arch.bits = 64
    /\ proc_info.base_info.proc_arch.bits = 32

\* What C9 says of a kernel below 6.2: no TEB read, no teb, teb_wow64,
\* peb_wow64.
NoTebBelowWin8 ==
    (proc_info.status # "none" /\ ~AtLeastWin8) =>
        /\ ~TebReadLogged
        /\ proc_info.teb = <<>>
        /\ proc_info.teb_wow64 = <<>>
        /\ proc_info.peb_wow64 = <<>>

\* C9 as claimed: from 6.2 on the TEB is read at ethread + kthread_teb and,
\* for a 32-bit process on a 64-bit system, teb_wow64 is teb + 0x2000;
\* below 6.2 nothing of this is read or set.
C9_TebWow64Always ==
    /\ (proc_info.status = "Ok" /\ AtLeastWin8) =>
          /\ TebReadLogged
          /\ Wow64Pair => proc_info.teb_wow64 = <<TebCell + 8192>>
    /\ NoTebBelowWin8

\* C9 as amended: from 6.2 on the TEB is read at ethread + kthread_teb;
\* when the pointer read is non-null, teb is that pointer and, for a 32-bit
\* process on a 64-bit system, teb_wow64 is teb + 0x2000; when it is NULL,
\* teb and teb_wow64 are both absent.  Below 6.2 nothing of this is read
\* or set.
C9_TebWow64UnlessNull ==
    /\ (proc_info.status = "Ok" /\ AtLeastWin8) =>
          /\ TebReadLogged
          /\ TebCell # NULL =>
                /\ proc_info.teb = <<TebCell>>
                /\ Wow64Pair => proc_info.teb_wow64 = <<TebCell + 8192>>
          /\ TebCell = NULL =>
                /\ proc_info.teb = <<>>
                /\ proc_info.teb_wow64 = <<>>
                /\ proc_info.peb_wow64 = <<>>
    /\ NoTebBelowWin8

C9_TebWow64Set ==
    /\ proc_info.status = "Ok"
    /\ AtLeastWin8
    /\ Wow64Pair
    /\ proc_info.teb_wow64 = <<InfoLayout.teb + 8192>>
    /\ proc_info.peb_wow64 = <<InfoLayout.peb32>>

(***************************************************************************)
(* Win32Kernel::new on its own: any content of the System process's        *)
(* DirectoryTableBase cell, any winload dtb, any architecture.             *)
(***************************************************************************)
\* What the cell at eprocess_base + kproc_dtb may hold.
DtbCellVals ==
    {NULL, 1, 4095, 4096, 4097, 8191, 8192, 3 * 4096 + 33, 5 * 4096, ReadErr}

\* kernel_info.dtb, the dtb the start block gave.
KernelDtbs == {4096, 3 * 4096, 7 * 4096}

NewMems ==
    { [a \in {KernelInfoRec.eprocess_base + Win32OffsetsRec.kproc_dtb} |-> v] :
        v \in DtbCellVals }

InitNew ==
    /\ mem \in NewMems
    /\ kernel_info \in
          { [KernelInfoRec EXCEPT !.dtb = d, !.arch = a] :
              d \in KernelDtbs, a \in Archs }
    /\ offsets = Win32OffsetsRec
    /\ callback = BOOLEAN
    /\ InitWalkVars
    /\ pmem = NoProcMem
    /\ kernel = NoKernel
    /\ info_reads = NoReads
    /\ base_info = NoBaseInfo
    /\ proc_info = NoProcInfo
    /\ inst = 1
    /\ first = NoWalk
    /\ arg = NoCall
    /\ ret = NoCall
    /\ process = NoProcess

NextNew == KernelNew

SpecNew == InitNew /\ [][NextNew]_vars

\* The pointer stored at eprocess_base + kproc_dtb, or ReadErr.
DtbCell ==
    virt_read_addr_arch(mem, kernel_info.eprocess_base + offsets.kproc_dtb)

WalkOutcome ==
    [emitted |-> emitted, emitCount |-> emitCount, result |-> result,
     calls |-> calls, reads |-> reads]

\* The first kernel is dropped and Win32Kernel::new builds the second.
Reopen ==
    /\ inst = 1
    /\ pc = "done"
    /\ first' = WalkOutcome
    /\ inst' = 2
    /\ kernel' = New(mem, kernel_info, offsets)
    /\ pc' = "idle"
    /\ UNCHANGED <<list_entry, iter, result, reads, calls, emitCount, emitted,
                   stopped>>
    /\ TargetEffect("new")
    /\ UNCHANGED <<info_reads, base_info, proc_info, callVars>>

InitReopen ==
    /\ mem \in WalkMems
    /\ kernel_info = KernelInfoRec
    /\ offsets = Win32OffsetsRec
    /\ callback = {TRUE}
    /\ InitWalkVars
    /\ pmem = NoProcMem
    /\ kernel = New(mem, kernel_info, offsets)
    /\ info_reads = NoReads
    /\ base_info = NoBaseInfo
    /\ proc_info = NoProcInfo
    /\ inst = 1
    /\ first = NoWalk
    /\ arg = NoCall
    /\ ret = NoCall
    /\ process = NoProcess

NextReopen ==
    \/ WalkCall
    \/ WalkReadErr
    \/ WalkSentinel
    \/ WalkContinue
    \/ WalkMaxIter
    \/ Reopen

SpecReopen == InitReopen /\ [][NextReopen]_vars

OsInfoRec == [base |-> 1024, size |-> 1, rva |-> 8, list_head |-> 2048]

\* PeView::from_bytes(&image) failed.
ImageNotPe == 0

\* get_export_by_name("PsLoadedModuleList") failed.
ImageNoExport == 1

\* Export::Forward(_)
ImageForwarded == 2

ImageVals == {ReadErr, ImageNotPe, ImageNoExport, ImageForwarded, OsInfoRec.rva}

\* Win32ModuleListInfo::with_base(addr, arch)
with_base(addr, arch) == [module_base |-> addr, arch |-> arch]

\* The steps of kernel_modules() on a cold cache: the reads issued, in
\* order, and Ok(info) or the error.
ColdKernelModules(m, ki) ==
    LET image == virt_read_addr_arch(m, OsInfoRec.base)
        r1 == <<ReadOf(ki.dtb, OsInfoRec.base)>>
        addr == OsInfoRec.base + image
        ptr == virt_read_addr_arch(m, addr)
        r2 == r1 \o <<ReadOf(ki.dtb, addr)>>
    IN  IF image = ReadErr
        THEN [status |-> "Err", kind |-> "Read", value |-> <<>>, reads |-> r1]
        ELSE IF image \in {ImageNotPe, ImageNoExport}
        THEN [status |-> "Err", kind |-> "PE", value |-> <<>>, reads |-> r1]
        ELSE IF image = ImageForwarded
        THEN [status |-> "Err", kind |-> "Other", value |-> <<>>, reads |-> r1]
        ELSE IF ptr = ReadErr
        THEN [status |-> "Err", kind |-> "Read", value |-> <<>>, reads |-> r2]
        ELSE [status |-> "Ok", kind |-> "none",
              value |-> <<with_base(ptr, ki.arch)>>, reads |-> r2]

\* The cache ignored: every call resolves the list again.
KernelModulesCall_NoCache(k, m, ki) == ColdKernelModules(m, ki)

\* kernel_modules(): if let Some(info) = self.kernel_modules { Ok(info) }
\* else { ... self.kernel_modules = Some(info); Ok(info) }
KernelModulesCall(k, m, ki) ==
    IF k.kernel_modules # <<>>
    THEN [status |-> "Ok", kind |-> "none", value |-> k.kernel_modules,
          reads |-> <<>>]
    ELSE ColdKernelModules(m, ki)

\* self.kernel_modules after the call: set on the cold path's success only.
CacheAfter(k, call) ==
    IF k.kernel_modules = <<>> /\ call.status = "Ok"
    THEN [k EXCEPT !.kernel_modules = call.value]
    ELSE k

KernelModules ==
    /\ kernel.open
    /\ LET call == KernelModulesCall(kernel, mem, kernel_info)
       IN  /\ kernel' = CacheAfter(kernel, call)
           /\ arg' = [op |-> "kernel_modules"]
           /\ ret' = call
    /\ TargetEffect("kernel_modules")
    /\ UNCHANGED <<walkVars, info_reads, base_info, proc_info, inst, first,
                   process>>

\* kernel_process_info(): let kernel_modules = self.kernel_modules()?; Ok(..)
KernelProcessInfo ==
    /\ kernel.open
    /\ LET call == KernelModulesCall(kernel, mem, kernel_info)
       IN  /\ kernel' = CacheAfter(kernel, call)
           /\ arg' = [op |-> "kernel_process_info"]
           /\ ret' = IF call.status = "Err" THEN call
                     ELSE [call EXCEPT !.value =
                             <<[NoProcInfo EXCEPT
                                 !.status = "Ok",
                                 !.base_info =
                                     [status |-> "Ok",
                                      address |-> OsInfoRec.base, pid |-> 0,
                                      name |-> 0,
                                      sys_arch |-> kernel_info.arch,
                                      proc_arch |-> kernel_info.arch],
                                 !.dtb = kernel.sysproc_dtb,
                                 !.exit_status = 259,
                                 !.module_info_native = call.value]>>]
    /\ TargetEffect("kernel_process_info")
    /\ UNCHANGED <<walkVars, info_reads, base_info, proc_info, inst, first,
                   process>>

\* What follows self.kernel_modules()? in module_address_list_callback and
\* module_by_address: one read at the given address through virt_mem.
ThenRead(call, addr) ==
    IF call.status = "Err" THEN call
    ELSE LET v == virt_read_addr_arch(mem, addr)
             rs == call.reads \o <<ReadOf(kernel_info.dtb, addr)>>
         IN  IF v = ReadErr
             THEN [status |-> "Err", kind |-> "Read", value |-> <<>>, reads |-> rs]
             ELSE [status |-> "Ok", kind |-> "none", value |-> <<v>>, reads |-> rs]

\* module_address_list_callback(): self.kernel_modules()?
\*     .module_entry_list_callback(self, arch, callback)
ModuleAddressListCallback ==
    /\ kernel.open
    /\ LET call == KernelModulesCall(kernel, mem, kernel_info)
       IN  /\ kernel' = CacheAfter(kernel, call)
           /\ arg' = [op |-> "module_address_list_callback"]
           /\ ret' = ThenRead(call,
                        IF call.status = "Ok" THEN call.value[1].module_base
                        ELSE NULL)
    /\ TargetEffect("module_address_list_callback")
    /\ UNCHANGED <<walkVars, info_reads, base_info, proc_info, inst, first,
                   process>>

\* module_by_address(address): self.kernel_modules()?
\*     .module_info_from_entry(address, eprocess_base, &mut virt_mem, arch)
ModuleByAddress ==
    /\ kernel.open
    /\ \E address \in {OsInfoRec.list_head, OsInfoRec.list_head + 1} :
         LET call == KernelModulesCall(kernel, mem, kernel_info)
         IN  /\ kernel' = CacheAfter(kernel, call)
             /\ arg' = [op |-> "module_by_address", address |-> address]
             /\ ret' = ThenRead(call, address)
    /\ TargetEffect("module_by_address")
    /\ UNCHANGED <<walkVars, info_reads, base_info, proc_info, inst, first,
                   process>>

(***************************************************************************)
(* The provided methods of the Process trait, memflow/src/os/process.rs.   *)
(* A Process object is the list of its module entries, each with the       *)
(* outcome module_by_address has for it, and the point, if any, where the  *)
(* implementor's own walk of the entries fails.                            *)
(***************************************************************************)
\* Longest module list of a Process.
MaxMods == 3

\* Module names: <<1, 2>> starts with <<1>>.
ModNames == {<<1>>, <<1, 2>>}

\* What module_by_address gives for an entry: Ok(info), or an error kind.
ModOutcomes ==
    [kind : {"Ok"}, name : ModNames]
        \cup [kind : {"PartialData", "Unknown"}, name : {<<>>}]

ModArchs == {X86_64, X86_32_TRUE}

\* The module lists of at most MaxMods entries; an entry's address is its
\* position.
ModLists ==
    UNION { { [i \in 1..n |->
                 [address |-> i, arch |-> a[i], kind |-> o[i].kind,
                  name |-> o[i].name]] :
               a \in [1..n -> ModArchs], o \in [1..n -> ModOutcomes] } :
            n \in 0..MaxMods }

Processes ==
    { [mods |-> l, fail_at |-> f] : l \in ModLists, f \in 0..(MaxMods + 1) }

\* target_arch: None for all, or Some(arch).
TargetArchs == {<<>>} \cup {<<a>> : a \in ModArchs}

\* The entries module_address_list_callback passes for a target_arch.
EntriesFor(p, target_arch) ==
    SelectSeq(p.mods, LAMBDA e : target_arch = <<>> \/ target_arch[1] = e.arch)

\* ModuleInfo of an entry that resolves.
ModuleInfoOf(e) == [address |-> e.address, arch |-> e.arch, name |-> e.name]

\* Callbacks of the callers: an opaque one that returns false at its
\* stop_at-th call (never for 0), the Vec collector of module_list_arch,
\* the name matcher of module_by_name_arch.
OpaqueCallbacks == { [kind |-> "opaque", stop_at |-> k, name |-> <<>>] : k \in 0..MaxMods }

CollectCallback == [kind |-> "collect", stop_at |-> 0, name |-> <<>>]

ByNameCallback(name) == [kind |-> "by_name", stop_at |-> 0, name |-> name]

\* The closure of process_info_fullname, kernel.rs:291-298.
StartsWithCallback(name) == [kind |-> "starts_with", stop_at |-> 0, name |-> name]

\* str::starts_with
starts_with(s, prefix) ==
    Len(prefix) <= Len(s) /\ SubSeq(s, 1, Len(prefix)) = prefix

\* The matcher that never stops the enumeration.
ByNameKeeps_Always(data_name, name) == TRUE

\* if data.name.as_ref() == name { ret = Ok(data); false } else { true }
ByNameKeeps(data_name, name) == data_name # name

\* callback.call(info) for the n-th module delivered.
CallbackCall(cb, info, n) ==
    CASE cb.kind = "opaque" -> cb.stop_at # n
      [] cb.kind = "collect" -> TRUE
      [] cb.kind = "by_name" -> ByNameKeeps(info.name, cb.name)
      [] cb.kind = "starts_with" -> ~starts_with(info.name, cb.name)

\* An inner callback for which a PartialData entry ends the enumeration.
InnerCallback_StopsOnPartial(kind, keep) == kind = "Ok" /\ keep

\* inner_callback of module_list_callback: Ok(info) => callback.call(info),
\* Err(PartialData) => true, Err(e) => false.
InnerCallback(kind, keep) ==
    CASE kind = "Ok" -> keep
      [] kind = "PartialData" -> TRUE
      [] OTHER -> FALSE

\* The walk before its first entry.
WalkStart ==
    [status |-> "running", kind |-> "none", n |-> 0, resolved |-> <<>>,
     delivered |-> <<>>, logged |-> <<>>]

\* module_address_list_callback(target_arch, inner_callback) as
\* module_list_callback drives it: entry by entry, until the implementor's
\* walk fails (Err), the inner callback returns false (Ok) or the entries
\* end (Ok).
RECURSIVE InnerWalk(_, _, _, _)
InnerWalk(es, cb, fail_at, st) ==
    IF fail_at = st.n + 1
    THEN [st EXCEPT !.status = "Err", !.kind = "Read"]
    ELSE IF st.n = Len(es)
    THEN [st EXCEPT !.status = "Ok"]
    ELSE LET e == es[st.n + 1]
             st1 == [st EXCEPT !.n = @ + 1,
                               !.resolved = Append(@, e.address),
                               !.delivered =
                                   IF e.kind = "Ok"
                                   THEN Append(@, ModuleInfoOf(e)) ELSE @,
                               !.logged =
                                   IF e.kind = "Ok" THEN @ ELSE Append(@, e.kind)]
             keep == IF e.kind = "Ok"
                     THEN CallbackCall(cb, ModuleInfoOf(e), Len(st1.delivered))
                     ELSE TRUE
         IN  IF InnerCallback(e.kind, keep)
             THEN InnerWalk(es, cb, fail_at, st1)
             ELSE [st1 EXCEPT !.status = "Ok"]

\* module_list_callback(target_arch, callback), process.rs:86-111
ModuleListCallbackOf(p, target_arch, cb) ==
    InnerWalk(EntriesFor(p, target_arch), cb, p.fail_at, WalkStart)

\* The last delivered module the matcher took: ret = Ok(data).
RECURSIVE LastMatch(_, _, _)
LastMatch(infos, name, n) ==
    IF n = 0 THEN <<>>
    ELSE IF ~ByNameKeeps(infos[n].name, name) THEN <<infos[n]>>
    ELSE LastMatch(infos, name, n - 1)

\* module_list_arch(target_arch), process.rs:167-174
ModuleListArchOf(p, target_arch) ==
    LET w == ModuleListCallbackOf(p, target_arch, CollectCallback)
    IN  IF w.status = "Err"
        THEN [status |-> "Err", kind |-> w.kind, value |-> <<>>, walk |-> w]
        ELSE [status |-> "Ok", kind |-> "none", value |-> w.delivered, walk |-> w]

\* module_by_name_arch(name, architecture), process.rs:132-148
ModuleByNameArchOf(p, name, target_arch) ==
    LET w == ModuleListCallbackOf(p, target_arch, ByNameCallback(name))
        m == LastMatch(w.delivered, name, Len(w.delivered))
    IN  IF w.status = "Err"
        THEN [status |-> "Err", kind |-> w.kind, value |-> <<>>, walk |-> w]
        ELSE IF m = <<>>
        THEN [status |-> "Err", kind |-> "ModuleNotFound", value |-> <<>>, walk |-> w]
        ELSE [status |-> "Ok", kind |-> "none", value |-> m, walk |-> w]

ModuleListCallback ==
    /\ arg = NoCall
    /\ \E target_arch \in TargetArchs, cb \in OpaqueCallbacks :
         /\ arg' = [op |-> "module_list_callback", target_arch |-> target_arch,
                    callback |-> cb]
         /\ ret' = LET w == ModuleListCallbackOf(process, target_arch, cb)
                   IN  [status |-> w.status, kind |-> w.kind,
                        value |-> w.delivered, walk |-> w]
    /\ UNCHANGED <<envVars, walkVars, infoVars, inst, first, process>>

ModuleListArch ==
    /\ arg = NoCall
    /\ \E target_arch \in TargetArchs :
         /\ arg' = [op |-> "module_list_arch", target_arch |-> target_arch]
         /\ ret' = ModuleListArchOf(process, target_arch)
    /\ UNCHANGED <<envVars, walkVars, infoVars, inst, first, process>>

ModuleByNameArch ==
    /\ arg = NoCall
    /\ \E name \in ModNames \cup {<<2>>}, target_arch \in TargetArchs :
         /\ arg' = [op |-> "module_by_name_arch", name |-> name,
                    target_arch |-> target_arch]
         /\ ret' = ModuleByNameArchOf(process, name, target_arch)
    /\ UNCHANGED <<envVars, walkVars, infoVars, inst, first, process>>

(***************************************************************************)
(* The by-name lookups of imports, exports and sections,                   *)
(* process.rs:245-287: the implementor's list callback passes the items    *)
(* of the module in order until the matcher returns false.                 *)
(***************************************************************************)
\* Longest import, export or section list of a module.
MaxItems == 2

ItemLists == UNION { [1..n -> ModNames] : n \in 0..MaxItems }

\* let mut ret = Err(Error(ErrorOrigin::OsLayer, ErrorKind::...)) of
\* module_import_by_name (246), module_export_by_name (262) and
\* module_section_by_name (278).
NotFoundKind(op) ==
    CASE op = "module_import_by_name" -> "ImportNotFound"
      [] op = "module_export_by_name" -> "ImportNotFound"
      [] op = "module_section_by_name" -> "ImportNotFound"

\* The items the matcher is called with: up to the first one it stops at,
\* or up to the point where the implementor's walk fails.
RECURSIVE ItemsPassed(_, _, _, _)
ItemsPassed(items, name, fail_at, n) ==
    IF fail_at = n + 1 \/ n = Len(items) THEN n
    ELSE IF ByNameKeeps(items[n + 1], name)
    THEN ItemsPassed(items, name, fail_at, n + 1)
    ELSE n + 1

\* module_import_by_name / module_export_by_name / module_section_by_name
ItemByNameOf(op, items, name, fail_at) ==
    LET n == ItemsPassed(items, name, fail_at, 0)
        failed == fail_at = n + 1 /\ (n = 0 \/ ByNameKeeps(items[n], name))
        found == n > 0 /\ ~ByNameKeeps(items[n], name)
    IN  IF failed
        THEN [status |-> "Err", kind |-> "Read", value |-> <<>>, passed |-> n]
        ELSE IF found
        THEN [status |-> "Ok", kind |-> "none", value |-> <<items[n]>>, passed |-> n]
        ELSE [status |-> "Err", kind |-> NotFoundKind(op), value |-> <<>>, passed |-> n]

ItemByName ==
    /\ arg = NoCall
    /\ \E op \in {"module_import_by_name", "module_export_by_name",
                  "module_section_by_name"},
          items \in ItemLists, name \in ModNames \cup {<<2>>},
          fail_at \in 0..(MaxItems + 1) :
         /\ arg' = [op |-> op, items |-> items, name |-> name,
                    fail_at |-> fail_at]
         /\ ret' = ItemByNameOf(op, items, name, fail_at)
    /\ UNCHANGED <<envVars, walkVars, infoVars, inst, first, process>>

\* No Win32Kernel, no target: the state of everything the calls below
\* leave alone.
NoTarget ==
    /\ mem = <<>>
    /\ pmem = NoProcMem
    /\ kernel_info = KernelInfoRec
    /\ offsets = Win32OffsetsRec
    /\ callback = BOOLEAN
    /\ InitWalkVars
    /\ kernel = NoKernel
    /\ info_reads = NoReads
    /\ base_info = NoBaseInfo
    /\ proc_info = NoProcInfo
    /\ inst = 1
    /\ first = NoWalk

InitProc ==
    /\ NoTarget
    /\ arg = NoCall
    /\ ret = NoCall
    /\ process \in Processes

NextProc ==
    \/ ModuleListCallback
    \/ ModuleListArch
    \/ ModuleByNameArch

SpecProc == InitProc /\ [][NextProc]_vars

\* The by-name lookups side by side, on processes of at most one module.
InitLookup ==
    /\ InitProc
    /\ Len(process.mods) <= 1

NextLookup ==
    \/ ModuleByNameArch
    \/ ItemByName

SpecLookup == InitLookup /\ [][NextLookup]_vars

\* The outcome module_by_address has for the entry at an address.
OutcomeAt(address) == process.mods[address].kind

\* The entries of the call's target architecture resolved, in list order,
\* up to the first whose module_by_address fails with another error than
\* PartialData.
HardErrorHit ==
    /\ arg.op \in {"module_list_callback", "module_list_arch", "module_by_name_arch"}
    /\ ret.walk.resolved # <<>>
    /\ OutcomeAt(ret.walk.resolved[Len(ret.walk.resolved)]) = "Unknown"

\* C18: when module_by_address fails for an entry with another error than
\* PartialData, the enumeration stops, that error is what the call
\* returns, and the modules delivered before stay delivered.
C18_HardErrorReturned ==
    HardErrorHit =>
        /\ ret.status = "Err"
        /\ ret.kind = "Unknown"

\* C19: each by-name lookup reports its own not-found kind when nothing
\* matches.
C19_OwnNotFoundKind ==
    /\ (arg.op = "module_by_name_arch" /\ ret.status = "Err"
            /\ ret.walk.status = "Ok") => ret.kind = "ModuleNotFound"
    /\ (arg.op \in {"module_import_by_name", "module_export_by_name"}
            /\ ret.status = "Err" /\ ret.kind # "Read") =>
          ret.kind = CASE arg.op = "module_import_by_name" -> "ImportNotFound"
                       [] arg.op = "module_export_by_name" -> "ExportNotFound"

\* The entries module_by_name_arch enumerates, and whether the i-th is a
\* module of the name asked for.
NameEntries == EntriesFor(process, arg.target_arch)

NameMatches(i) ==
    NameEntries[i].kind = "Ok" /\ NameEntries[i].name = arg.name

\* The enumeration gets as far as the i-th entry: nothing before it stops
\* it, and the walk of the entries does not fail up to it.
NameReached(i) ==
    /\ \A j \in 1..(i - 1) : NameEntries[j].kind # "Unknown" /\ ~NameMatches(j)
    /\ process.fail_at = 0 \/ process.fail_at > i

\* The first module of the name is returned and nothing behind it is
\* resolved.
FirstMatchReturned ==
    \A i \in DOMAIN NameEntries :
        (NameMatches(i) /\ NameReached(i)) =>
            /\ ret.status = "Ok"
            /\ ret.value = <<[address |-> NameEntries[i].address,
                              arch |-> NameEntries[i].arch,
                              name |-> arg.name]>>
            /\ Len(ret.walk.resolved) = i
            /\ \A k \in 1..i : ret.walk.resolved[k] = NameEntries[k].address

\* The implementor's walk of the entries failed after the entries resolved:
\* the inner callback had not stopped it.
EntryWalkFailed ==
    /\ process.fail_at = Len(ret.walk.resolved) + 1
    /\ \/ ret.walk.resolved = <<>>
       \/ OutcomeAt(ret.walk.resolved[Len(ret.walk.resolved)]) # "Unknown"

NoModuleOfNameDelivered ==
    \A k \in DOMAIN ret.walk.delivered : ret.walk.delivered[k].name # arg.name

\* C20 as claimed: the first module of that name in enumeration order is
\* returned and the enumeration stops there; when no delivered module has
\* the name the result is ModuleNotFound.
C20_FirstMatchOrNotFound ==
    arg.op = "module_by_name_arch" =>
        /\ FirstMatchReturned
        /\ NoModuleOfNameDelivered =>
              (ret.status = "Err" /\ ret.kind = "ModuleNotFound")

\* C20 as amended: the same, but when no delivered module has the name the
\* result is ModuleNotFound only if the enumeration itself returned Ok; an
\* error of the enumeration is returned as it is.
C20_FirstMatchOrNotFoundOrWalkError ==
    arg.op = "module_by_name_arch" =>
        /\ FirstMatchReturned
        /\ NoModuleOfNameDelivered =>
              /\ ret.status = "Err"
              /\ ret.kind = IF EntryWalkFailed THEN "Read" ELSE "ModuleNotFound"
        /\ ret.status = "Ok" => ~NoModuleOfNameDelivered

C20_SecondOfTwoNotRead ==
    /\ arg.op = "module_by_name_arch"
    /\ ret.status = "Ok"
    /\ Len(NameEntries) = 3
    /\ Len(ret.walk.resolved) = 2
    /\ NameMatches(3)
    /\ NameEntries[1].kind = "Ok"

(***************************************************************************)
(* process_info_by_address, kernel.rs:434-442, with                        *)
(* process_info_fullname, kernel.rs:288-309.  The Win32Process that        *)
(* process_by_info builds enumerates the modules of the variable process.  *)
(***************************************************************************)
\* The name read by virt_read_cstr, as a string.
NameOfCell(v) == <<v>>

\* process_info_fullname(info): the refined name, or the error.
FullName(info, p) ==
    LET name == NameOfCell(info.base_info.name)
        again == FromBaseInfo(info.base_info)
        w == ModuleListCallbackOf(p, <<info.base_info.sys_arch>>,
                                  StartsWithCallback(name))
        n == Len(w.delivered)
    IN  IF again.info.status # "Ok"
        THEN [status |-> "Err", kind |-> "Read", name |-> name,
              reads |-> again.reads]
        ELSE IF w.status = "Err"
        THEN [status |-> "Err", kind |-> w.kind, name |-> name,
              reads |-> again.reads]
        ELSE [status |-> "Ok", kind |-> "none",
              name |-> IF n > 0 /\ starts_with(w.delivered[n].name, name)
                       THEN w.delivered[n].name ELSE name,
              reads |-> again.reads]

\* process_info_by_address(address)
ProcessInfoByAddressOf(address, p) ==
    LET b == BaseByAddress(address)
        unrefined == [b.info EXCEPT !.name = NameOfCell(@)]
        f == FromBaseInfo(b.info)
        full == FullName(f.info, p)
    IN  IF b.info.status # "Ok"
        THEN [status |-> "Err", kind |-> b.info.status, value |-> <<>>,
              reads |-> b.reads]
        ELSE IF f.info.status # "Ok"
        THEN [status |-> "Ok", kind |-> "none", value |-> <<unrefined>>,
              reads |-> b.reads \o f.reads]
        ELSE IF full.status = "Err"
        THEN [status |-> "Err", kind |-> full.kind, value |-> <<>>,
              reads |-> b.reads \o f.reads \o full.reads]
        ELSE [status |-> "Ok", kind |-> "none",
              value |-> <<[unrefined EXCEPT !.name = full.name]>>,
              reads |-> b.reads \o f.reads \o full.reads]

ProcessInfoByAddress ==
    /\ kernel.open
    /\ \E address \in {kernel_info.eprocess_base} :
         /\ arg' = [op |-> "process_info_by_address", address |-> address]
         /\ ret' = ProcessInfoByAddressOf(address, process)
    /\ TargetEffect("process_info_by_address")
    /\ UNCHANGED <<walkVars, infoVars, inst, first, process>>

(***************************************************************************)
(* All operations of one Win32Kernel over one target: the System process   *)
(* and one more in the process list, the kernel image at os_info.base.     *)
(***************************************************************************)
AllPointersSet ==
    [wow64 |-> InfoLayout.wow64, peb |-> InfoLayout.peb,
     teb |-> InfoLayout.teb, peb32 |-> InfoLayout.peb32]

\* The cells that may be unreadable in this target.
OpsBadSets == {{}, {"pid"}, {"peb"}}

\* The process list: the System process's entry, then one more whose
\* Flink leads back to it or is unreadable.
OpsListCells ==
    LET e0 == KernelInfoRec.eprocess_base + Win32OffsetsRec.eproc_link
        e1 == 2 * KernelInfoRec.eprocess_base + Win32OffsetsRec.eproc_link
    IN  { (e0 :> e1) @@ (e0 + Win32OffsetsRec.list_blink :> e1)
            @@ (e1 :> f) @@ (e1 + Win32OffsetsRec.list_blink :> e0) :
          f \in {e0, ReadErr} }

\* The kernel image, the PsLoadedModuleList pointer and the list head.
OpsImageCells ==
    LET o == OsInfoRec
    IN  { (o.base :> i) @@ (o.base + o.rva :> o.list_head)
            @@ (o.list_head :> o.list_head) : i \in ImageVals }
        \cup { (o.base :> o.rva) @@ (o.base + o.rva :> ReadErr)
                 @@ (o.list_head :> o.list_head) }
        \cup { (o.base :> o.rva) @@ (o.base + o.rva :> o.list_head)
                 @@ (o.list_head :> ReadErr) }

\* The module lists of the process behind the EPROCESS.
OpsProcesses ==
    { NoProcess,
      [mods |-> <<>>, fail_at |-> 1],
      [mods |-> <<[address |-> 1, arch |-> X86_64, kind |-> "Ok",
                   name |-> <<1, 2>>]>>, fail_at |-> 0],
      [mods |-> <<[address |-> 1, arch |-> X86_64, kind |-> "Unknown",
                   name |-> <<>>]>>, fail_at |-> 0] }

InitOps ==
    /\ \E bad \in OpsBadSets, l \in OpsListCells, i \in OpsImageCells :
          /\ mem = MemOf(KernelCells, AllPointersSet, bad) @@ l @@ i
          /\ pmem = [dtb |-> InfoLayout.proc_dtb,
                     cells |-> MemOf(ProcCells, AllPointersSet, bad)]
    /\ kernel_info = KernelInfoRec
    /\ offsets = Win32OffsetsRec
    /\ callback = BOOLEAN
    /\ InitWalkVars
    /\ kernel = NoKernel
    /\ info_reads = NoReads
    /\ base_info = NoBaseInfo
    /\ proc_info = NoProcInfo
    /\ inst = 1
    /\ first = NoWalk
    /\ arg = NoCall
    /\ ret = NoCall
    /\ process \in OpsProcesses

NextOps ==
    \/ KernelNew
    \/ KernelModules
    \/ KernelProcessInfo
    \/ ProcessInfoBaseByAddress
    \/ ProcessInfoFromBaseInfo
    \/ ProcessInfoByAddress
    \/ WalkCall
    \/ WalkReadErr
    \/ WalkSentinel
    \/ WalkCallbackStop
    \/ WalkContinue
    \/ ModuleAddressListCallback
    \/ ModuleByAddress

SpecOps == InitOps /\ [][NextOps]_vars

CacheUser ==
    \/ KernelModules
    \/ KernelProcessInfo
    \/ ModuleAddressListCallback
    \/ ModuleByAddress

\* C12: the kernel-module cache is empty after new; a failing
\* kernel_modules() leaves it empty; the first successful one fills it;
\* once filled it never changes and kernel_modules() returns it without
\* reading target memory; only the operations that call kernel_modules()
\* change it.
C12_CacheLifecycle ==
    [][ /\ KernelNew => kernel'.kernel_modules = <<>>
        /\ (KernelModules /\ ret'.status = "Err") =>
              (kernel.kernel_modules = <<>> /\ kernel'.kernel_modules = <<>>)
        /\ (KernelModules /\ ret'.status = "Ok") =>
              kernel'.kernel_modules = ret'.value
        /\ kernel.kernel_modules # <<>> =>
              /\ kernel'.kernel_modules = kernel.kernel_modules
              /\ KernelModules =>
                    /\ ret'.status = "Ok"
                    /\ ret'.value = kernel.kernel_modules
                    /\ ret'.reads = <<>>
        /\ kernel'.kernel_modules # kernel.kernel_modules => CacheUser
      ]_vars

C12_ServedFromCache ==
    /\ kernel.kernel_modules = <<with_base(OsInfoRec.list_head, kernel_info.arch)>>
    /\ arg.op = "kernel_modules"
    /\ ret.status = "Ok"
    /\ ret.reads = <<>>

(***************************************************************************)
(* aarch64 find_pt, memflow-win32/src/kernel/start_block/aarch64.rs:12-38. *)
(* A 64-bit word is kept as its bit fields: lo = bits 0..11,               *)
(* frame = bits 12..47, hi = bits 48..51, top = bits 52..63.  A page is    *)
(* its first entry pte0 and the leading entries of its second half         *)
(* mem[0x800..]; the entries behind them are zero.                         *)
(***************************************************************************)
\* Entries of mem[0x800..] that are drawn; the rest of the half is zero.
HalfLen == 7

U64(lo, frame, hi, top) == [lo |-> lo, frame |-> frame, hi |-> hi, top |-> top]

\* a ^ b on the low 12 bits.
RECURSIVE Xor12(_, _, _)
Xor12(a, b, n) ==
    IF n = 0 THEN 0
    ELSE (((a % 2) + (b % 2)) % 2) + 2 * Xor12(a \div 2, b \div 2, n - 1)

\* size::gb(512), in 4 KB frames: (pte & 0x0000_ffff_ffff_f000) > max_mem
MaxMemFrames == 134217728

\* PHYS_BASE = size::gb(1), in 4 KB frames.
PhysBaseFrames == 262144

\* (pte & 0xfff) != 0xf03 || (pte & 0x0000_ffff_ffff_f000) > max_mem
Pte0Rejected(pte) == pte.lo # 3843 \/ pte.frame > MaxMemFrames

\* (a ^ 0xf03) & (!0u64 >> 12) == addr.to_umem()
IsSelfRef(a, addr) ==
    /\ Xor12(a.lo, 3843, 12) = addr.lo
    /\ a.frame = addr.frame
    /\ a.hi = addr.hi
    /\ addr.top = 0

\* (a & 0xfff) == 0x703
IsKernelEntry(a) == a.lo = 1795

\* .nth(4) in place of .nth(5)
EnoughKernelEntries_Five(n) == n >= 5

\* .filter(..).nth(5)? : a sixth matching entry exists
EnoughKernelEntries(n) == n >= 6

\* find_pt(addr, mem): Some(addr) or None
find_pt(addr, pte0, half) ==
    IF Pte0Rejected(pte0) THEN <<>>
    ELSE IF ~\E i \in DOMAIN half : IsSelfRef(half[i], addr) THEN <<>>
    ELSE IF ~EnoughKernelEntries(
                Cardinality({i \in DOMAIN half : IsKernelEntry(half[i])}))
    THEN <<>>
    ELSE <<addr>>

\* Page addresses: PHYS_BASE + i * 4096.
PtAddrs == { U64(0, PhysBaseFrames + i, 0, 0) : i \in 0..1 }

\* First entries: a valid one, one at the 512 GB limit, one above it, one
\* with other low bits.
Pte0Vals ==
    { U64(3843, 5, 0, 0), U64(3843, MaxMemFrames, 0, 96),
      U64(3843, MaxMemFrames + 1, 0, 0), U64(1795, 5, 0, 0) }

\* Entries of the second half for the page at addr: zero, a self-reference
\* (with attribute bits 52..63 set), a reference to the next page, a
\* kernel entry.
HalfVals(addr) ==
    { U64(0, 0, 0, 0), U64(3843, addr.frame, 0, 96),
      U64(3843, addr.frame + 1, 0, 0), U64(1795, 7, 0, 0) }

InitPt ==
    /\ NoTarget
    /\ process = NoProcess
    /\ ret = NoCall
    /\ \E addr \in PtAddrs, pte0 \in Pte0Vals :
         \E half \in [1..HalfLen -> HalfVals(addr)] :
            arg = [op |-> "find_pt", addr |-> addr, pte0 |-> pte0,
                   half |-> half]

FindPt ==
    /\ arg.op = "find_pt"
    /\ ret = NoCall
    /\ ret' = [op |-> "find_pt",
               value |-> find_pt(arg.addr, arg.pte0, arg.half)]
    /\ UNCHANGED <<envVars, walkVars, infoVars, inst, first, arg, process>>

NextPt == FindPt

SpecPt == InitPt /\ [][NextPt]_vars

\* The page of the claim's example: a self-reference at offset 0x800 and
\* exactly six further entries with low bits 0x703.
ExamplePage ==
    /\ arg.pte0.lo = 3843 /\ arg.pte0.frame <= MaxMemFrames
    /\ arg.half[1].lo = 3843 /\ arg.half[1].frame = arg.addr.frame
    /\ \A i \in 2..7 : arg.half[i].lo = 1795
    /\ \A i \in 8..Len(arg.half) : arg.half[i].lo = 0

\* C13: find_pt accepts the page at P if and only if pte0 has low bits
\* 0xf03 and an address of at most 512 GB, some entry of the second half
\* is a self-reference to P, and at least six entries of the second half
\* have low bits 0x703; the example page is accepted, and without its
\* self-reference or without any one of its six entries it is rejected.
C13_FindPtAcceptsIff ==
    ret.op = "find_pt" =>
        /\ ret.value \in {<<>>, <<arg.addr>>}
        /\ ret.value = <<arg.addr>> <=>
              /\ arg.pte0.lo = 3843
              /\ arg.pte0.frame <= MaxMemFrames
              /\ \E i \in DOMAIN arg.half :
                    /\ arg.half[i].lo = 3843
                    /\ arg.half[i].frame = arg.addr.frame
                    /\ arg.half[i].hi = 0
              /\ Cardinality({i \in DOMAIN arg.half : arg.half[i].lo = 1795}) >= 6
        /\ ExamplePage =>
              /\ ret.value = <<arg.addr>>
              /\ \A i \in 1..7 :
                    find_pt(arg.addr, arg.pte0,
                            [arg.half EXCEPT ![i] = U64(0, 0, 0, 0)]) = <<>>

C13_ExamplePageAccepted ==
    /\ ret.op = "find_pt"
    /\ ExamplePage
    /\ arg.pte0.frame = MaxMemFrames
    /\ arg.half[1].top # 0
    /\ ret.value = <<arg.addr>>

(***************************************************************************)
(* The x86-PAE MMU description, flow-core/src/architecture/x86_pae.rs.     *)
(* A PTE or a bit mask is the set of its bits that are 1.                  *)
(***************************************************************************)
\* The same description with a final step behind the last level.
get_mmu_spec_StepBeyond ==
    [virtual_address_splits |-> <<2, 9, 9, 12>>,
     valid_final_page_steps |-> <<2, 4>>,
     address_space_bits |-> 36, pte_size |-> 8, present_bit |-> 0,
     writeable_bit |-> 1, nx_bit |-> 63, large_page_bit |-> 7]

\* get_mmu_spec(), x86_pae.rs:17-28
get_mmu_spec ==
    [virtual_address_splits |-> <<2, 9, 9, 12>>,
     valid_final_page_steps |-> <<2, 3>>,
     address_space_bits |-> 36, pte_size |-> 8, present_bit |-> 0,
     writeable_bit |-> 1, nx_bit |-> 63, large_page_bit |-> 7]

RECURSIVE Pow2(_)
Pow2(n) == IF n = 0 THEN 1 ELSE 2 * Pow2(n - 1)

RECURSIVE Log2(_)
Log2(n) == IF n <= 1 THEN 0 ELSE 1 + Log2(n \div 2)

RECURSIVE SumSeq(_)
SumSeq(s) == IF s = <<>> THEN 0 ELSE Head(s) + SumSeq(Tail(s))

\* splits[pt_level] of a 0-based level.
SplitAt(mmu, pt_level) == mmu.virtual_address_splits[pt_level + 1]

\* ArchMMUSpec::pt_leaf_size(pt_level): pte_size << splits[pt_level]
pt_leaf_size(mmu, pt_level) == mmu.pte_size * Pow2(SplitAt(mmu, pt_level))

\* make_bit_mask(a, b): bits a..=b
make_bit_mask(a, b) == a..b

\* Address::invalid(): all 64 bits set.
AddressInvalid == 0..63

\* The mask without its upper end.
pte_addr_mask_NoUpperEnd(mmu, pte, pt_level) ==
    pte \cap make_bit_mask(Log2(pt_leaf_size(mmu, pt_level)), 63)

\* ArchMMUSpec::pte_addr_mask(pte, pt_level): the bits of the PTE from the
\* table alignment of the level up to address_space_bits - 1.
pte_addr_mask(mmu, pte, pt_level) ==
    pte \cap make_bit_mask(Log2(pt_leaf_size(mmu, pt_level)),
                           mmu.address_space_bits - 1)

\* The level counted from the top instead of from the last one.
page_size_level_TopDown(mmu, pt_level) ==
    LET s == mmu.virtual_address_splits
    IN  Pow2(SumSeq(SubSeq(s, pt_level + 2, Len(s))))

\* ArchMMUSpec::page_size_level(pt_level): the page mapped by an entry
\* pt_level levels from the end of the splits.
page_size_level(mmu, pt_level) ==
    LET s == mmu.virtual_address_splits
    IN  Pow2(SumSeq(SubSeq(s, Len(s) - pt_level + 1, Len(s))))

\* page_size(), x86_pae.rs:30-32
page_size == page_size_level(get_mmu_spec, 1)

MmuOps ==
    {"get_mmu_spec", "pt_leaf_size", "pte_addr_mask", "page_size_level",
     "page_size"}

\* The PTEs the masks are applied to.
PteVals ==
    { AddressInvalid, {}, {0}, {5}, {4, 12, 35, 36}, 0..35, 4..36, {63} }

InitMmu ==
    /\ NoTarget
    /\ process = NoProcess
    /\ ret = NoCall
    /\ \E op \in MmuOps, l \in 0..3, pte \in PteVals :
         arg = [op |-> op, level |-> l, pte |-> pte]

MmuApply ==
    /\ arg.op \in MmuOps
    /\ ret = NoCall
    /\ ret' = [op |-> arg.op,
               value |->
                 CASE arg.op = "get_mmu_spec" -> get_mmu_spec
                   [] arg.op = "pt_leaf_size" ->
                        pt_leaf_size(get_mmu_spec, arg.level)
                   [] arg.op = "pte_addr_mask" ->
                        pte_addr_mask(get_mmu_spec, arg.pte, arg.level)
                   [] arg.op = "page_size_level" ->
                        page_size_level(get_mmu_spec, arg.level)
                   [] arg.op = "page_size" -> page_size]
    /\ UNCHANGED <<envVars, walkVars, infoVars, inst, first, arg, process>>

NextMmu == MmuApply

SpecMmu == InitMmu /\ [][NextMmu]_vars

\* The invariants of an MmuSpec that do not concern the final steps.
MmuSpecBasics(m) ==
    /\ SumSeq(m.virtual_address_splits) \in {32, 48, 64}
    /\ m.pte_size \in {4, 8}
    /\ m.pte_size * 8 >= m.address_space_bits

C15_LeafSizeAndAddrMask ==
    /\ (ret.op = "pt_leaf_size" /\ arg.level = 0) => ret.value = 32
    /\ (ret.op = "pt_leaf_size" /\ arg.level = 1) => ret.value = 4096
    /\ (ret.op = "pte_addr_mask" /\ arg.level \in 0..2) =>
          LET range == IF arg.level = 0 THEN 5..35 ELSE 12..35
          IN  /\ ret.value = arg.pte \cap range
              /\ arg.pte = 0..63 => ret.value = range

C15_AllOnesMaskedAtTop ==
    /\ ret.op = "pte_addr_mask"
    /\ arg.level = 0
    /\ arg.pte = 0..63
    /\ ret.value = 5..35

\* C16: page_size_level is 4 KB for level 1 and 2 MB for level 2, and
\* page_size() is page_size_level(1) = 4 KB.
C16_PageSizes ==
    /\ (ret.op = "page_size_level" /\ arg.level = 1) => ret.value = 4096
    /\ (ret.op = "page_size_level" /\ arg.level = 2) => ret.value = 2097152
    /\ ret.op = "page_size" => ret.value = 4096

C16_LargePageSized ==
    /\ ret.op = "page_size_level"
    /\ arg.level = 2
    /\ ret.value = 2 * 1024 * 1024

(***************************************************************************)
(* translate(dtb, requests, out): the batched page-table walk over the     *)
(* x86-PAE description.  What the page tables hold for a request is the    *)
(* sequence of PTEs its walk reads, each PTE given by how it decodes:      *)
(* present and pointing on, present with the large-page bit, not present,  *)
(* an address beyond the address space, or a read that fails.              *)
(***************************************************************************)
\* Largest batch of translation requests; the user_tags are 1..MaxReqs.
MaxReqs == 2

PteOutcomes == {"next", "large", "not_present", "invalid", "read_failed"}

\* The last level a walk reads a PTE at: len(splits) - 2.
FinalLevel == Len(get_mmu_spec.virtual_address_splits) - 2

\* Whether a walk may end in a large page at level l: the PTE read at
\* level l is step l + 1 of the walk.
valid_leaf_at(mmu, l) ==
    \E i \in 1..Len(mmu.valid_final_page_steps) :
        mmu.valid_final_page_steps[i] = l + 1

\* A failed translation ends the whole batch.
Survivors_AbortOnError(work, failed) == IF failed = {} THEN work ELSE {}

\* The tuples that stay in the working list: every one that emitted no
\* result, whatever happened to the others.
Survivors(work, failed) == work

\* What a tuple of the working list becomes when its PTE is decoded:
\* an error result, an Ok result, or the same tuple one level down.
Decode(outcome, level) ==
    CASE outcome = "read_failed" -> [emit |-> TRUE, res |-> "PhysicalReadFailed"]
      [] outcome = "not_present" -> [emit |-> TRUE, res |-> "PageNotPresent"]
      [] outcome = "invalid" -> [emit |-> TRUE, res |-> "InvalidPTE"]
      [] level = FinalLevel -> [emit |-> TRUE, res |-> "Ok"]
      [] outcome = "large" /\ valid_leaf_at(get_mmu_spec, level) ->
            [emit |-> TRUE, res |-> "Ok"]
      [] OTHER -> [emit |-> FALSE, res |-> "none"]

\* The PTE sequences a walk can read: every PTE but the last sends the
\* walk one level down, the last one ends it.
PteWalks ==
    {w \in UNION {[1..k -> PteOutcomes] : k \in 1..(FinalLevel + 1)} :
        /\ \A l \in 1..(Len(w) - 1) : ~Decode(w[l], l - 1).emit
        /\ Decode(w[Len(w)], Len(w) - 1).emit}

InitTranslate ==
    /\ NoTarget
    /\ process = NoProcess
    /\ ret = NoCall
    /\ \E n \in 0..MaxReqs :
         \E pt \in [1..n -> PteWalks] :
            arg = [op |-> "translate", n |-> n, pt |-> pt]

\* Stage 0: one tuple (user_tag, level = 0) per request.
TranslateStart ==
    /\ arg.op = "translate"
    /\ ret = NoCall
    /\ ret' = [op |-> "translate", work |-> 1..arg.n, level |-> 0,
               iters |-> 0, out |-> {},
               count |-> [t \in 1..arg.n |-> 0]]
    /\ UNCHANGED <<envVars, walkVars, infoVars, inst, first, arg, process>>

\* One iteration of the level loop over all active tuples.
TranslateLevel ==
    /\ ret.op = "translate"
    /\ ret.work # {}
    /\ LET d(t) == Decode(arg.pt[t][ret.level + 1], ret.level)
           emitting == {t \in ret.work : d(t).emit}
           failed == {t \in emitting : d(t).res # "Ok"}
       IN  ret' = [ret EXCEPT
                     !.work = Survivors(ret.work \ emitting, failed),
                     !.level = @ + 1,
                     !.iters = @ + 1,
                     !.out = @ \cup {[user_tag |-> t, res |-> d(t).res,
                                      level |-> ret.level] : t \in emitting},
                     !.count = [t \in 1..arg.n |->
                                  IF t \in emitting THEN @[t] + 1 ELSE @[t]]]
    /\ UNCHANGED <<envVars, walkVars, infoVars, inst, first, arg, process>>

NextTranslate ==
    \/ TranslateStart
    \/ TranslateLevel

SpecTranslate == InitTranslate /\ [][NextTranslate]_vars

\* The result the last PTE of a request's walk stands for.
ExpectedRes(t) ==
    LET o == arg.pt[t][Len(arg.pt[t])]
    IN  CASE o = "read_failed" -> "PhysicalReadFailed"
          [] o = "not_present" -> "PageNotPresent"
          [] o = "invalid" -> "InvalidPTE"
          [] OTHER -> "Ok"

\* C17: a translate call ends after at most len(splits) - 1 iterations of
\* the level loop, every iteration moving every active request one level
\* down, and emits exactly one result per user_tag: a request whose PTE
\* is not present, invalid or unreadable gets its own error result and
\* the other requests of the batch still get theirs.
C17_OneResultPerTag ==
    ret.op = "translate" =>
        /\ ret.iters <= Len(get_mmu_spec.virtual_address_splits) - 1
        /\ ret.level = ret.iters
        /\ ret.work # {} => ret.iters < Len(get_mmu_spec.virtual_address_splits) - 1
        /\ \A t \in 1..arg.n :
              /\ t \in ret.work <=> ret.iters < Len(arg.pt[t])
              /\ ret.count[t] = IF t \in ret.work THEN 0 ELSE 1
              /\ {r \in ret.out : r.user_tag = t}
                    = IF t \in ret.work THEN {}
                      ELSE {[user_tag |-> t, res |-> ExpectedRes(t),
                             level |-> Len(arg.pt[t]) - 1]}

C17_FailureBesideSuccess ==
    /\ ret.op = "translate"
    /\ arg.n = 2
    /\ ret.work = {}
    /\ ret.iters = 3
    /\ \E t \in 1..2 : [user_tag |-> t, res |-> "PhysicalReadFailed", level |-> 0] \in ret.out
    /\ \E t \in 1..2 : [user_tag |-> t, res |-> "Ok", level |-> 2] \in ret.out

(***************************************************************************)
(* os_process_info_name (memflow-core-ffi): the C entry point that copies  *)
(* a process name into a caller's buffer.  Bytes of the name are 1 and 2,  *)
(* 0 is the NUL terminator, Untouched marks a byte of out the call has     *)
(* not written.                                                            *)
(***************************************************************************)
\* Longest process name drawn.
MaxNameLen == 3

Untouched == 9

NameBytes == {1, 2}

ProcNames == UNION {[1..k -> NameBytes] : k \in 0..MaxNameLen}

MaxLens == 0..(MaxNameLen + 2)

\* usize::MAX, the value 0usize - 1 wraps to in a build without overflow
\* checks.  2^64 - 1 itself is beyond the integers of the checker; the
\* value used is likewise above the length of every slice.
UsizeMax == 2147483647

Min(a, b) == IF a < b THEN a ELSE b

\* `len - 1` on usize: a panic where overflow checks are compiled in,
\* a wrap to usize::MAX where they are not.
UsizeSub1(n, overflow_checks) ==
    IF n > 0 THEN [panic |-> FALSE, value |-> n - 1]
    ELSE IF overflow_checks THEN [panic |-> TRUE, value |-> 0]
    ELSE [panic |-> FALSE, value |-> UsizeMax]

\* out as the call leaves it: copied bytes, the NUL, the rest untouched.
OutAfter(name, len, cap) ==
    [i \in 1..cap |->
        IF i < len THEN name[i]
        ELSE IF i = len THEN 0 ELSE Untouched]

os_process_info_name(name, max_len, overflow_checks) ==
    LET len == Min(max_len, Len(name))
        end == UsizeSub1(len, overflow_checks)
    IN  IF end.panic
        THEN [op |-> "os_process_info_name", status |-> "panic",
              cause |-> "subtract with overflow", len |-> 0,
              out |-> OutAfter(name, 0, max_len)]
        ELSE IF end.value > len
        THEN [op |-> "os_process_info_name", status |-> "panic",
              cause |-> "slice index out of range", len |-> 0,
              out |-> OutAfter(name, 0, max_len)]
        ELSE [op |-> "os_process_info_name", status |-> "ok",
              cause |-> "none", len |-> len,
              out |-> OutAfter(name, len, max_len)]

InitName ==
    /\ NoTarget
    /\ process = NoProcess
    /\ ret = NoCall
    /\ \E name \in ProcNames, max_len \in MaxLens :
          arg = [op |-> "os_process_info_name", name |-> name,
                 max_len |-> max_len]

OsProcessInfoName ==
    /\ arg.op = "os_process_info_name"
    /\ ret = NoCall
    /\ \E overflow_checks \in BOOLEAN :
          ret' = os_process_info_name(arg.name, arg.max_len, overflow_checks)
    /\ UNCHANGED <<envVars, walkVars, infoVars, inst, first, arg, process>>

NextName == OsProcessInfoName

SpecName == InitName /\ [][NextName]_vars

\* C21: os_process_info_name writes at most max_len bytes: the first
\* min(max_len - 1, length of the name) bytes of the name followed by one
\* NUL, and returns the number of bytes written; with max_len above the
\* name length the whole name is copied.
C21_NameCopiedUpToMaxLen ==
    (ret.op = "os_process_info_name" /\ ret.status = "ok") =>
        LET n == Min(arg.max_len - 1, Len(arg.name))
        IN  /\ ret.len = n + 1
            /\ ret.len <= arg.max_len
            /\ \A i \in 1..n : ret.out[i] = arg.name[i]
            /\ ret.out[n + 1] = 0
            /\ \A i \in (n + 2)..arg.max_len : ret.out[i] = Untouched

\* C28: os_process_info_name completes without arithmetic underflow or
\* out-of-range slice index for every name and every max_len >= 0.
C28_NameCallCompletes ==
    ret.op = "os_process_info_name" => ret.status = "ok"

(***************************************************************************)
(* Connector plugins (memflow-core connector/plugin.rs).  A directory is   *)
(* a sequence of entries; an entry is unreadable, a file that is no        *)
(* library, a library without the MEMFLOW_CONNECTOR symbol, or a plugin    *)
(* with a descriptor.  The factory of a plugin is named by the index of    *)
(* its file.                                                               *)
(***************************************************************************)
\* Most entries in a plugin directory.
MaxFiles == 2

MEMFLOW_CONNECTOR_VERSION == 1

PluginFiles ==
    [kind : {"entry_error", "not_library", "no_descriptor"},
     connector_version : {0}, name : {0}]
    \cup [kind : {"plugin"}, connector_version : 0..2, name : 1..2]

PluginDirs ==
    [state : {"not_dir", "unreadable"}, entries : {<<>>}]
    \cup [state : {"dir"},
          entries : UNION {[1..k -> PluginFiles] : k \in 0..MaxFiles}]

\* The version test of try_with left out.
VersionMismatch_Never(desc) == FALSE

VersionMismatch(desc) == desc.connector_version # MEMFLOW_CONNECTOR_VERSION

try_with(file, path) ==
    IF file.kind # "plugin" /\ file.kind # "no_descriptor"
    THEN [status |-> "Err", kind |-> "Connector", msg |-> "unable to load library"]
    ELSE IF file.kind = "no_descriptor"
    THEN [status |-> "Err", kind |-> "Connector", msg |-> "connector descriptor not found"]
    ELSE IF VersionMismatch(file)
    THEN [status |-> "Err", kind |-> "Connector", msg |-> "connector version mismatch"]
    ELSE [status |-> "Ok", name |-> file.name, factory |-> path]

\* The for loop of ConnectorInventory::new over the entries from index i.
RECURSIVE LoadEntries(_, _, _)
LoadEntries(entries, i, connectors) ==
    IF i > Len(entries) THEN [status |-> "Ok", connectors |-> connectors]
    ELSE IF entries[i].kind = "entry_error"
    THEN [status |-> "Err", kind |-> "IO", msg |-> "unable to read directory entry"]
    ELSE LET c == try_with(entries[i], i)
         IN  LoadEntries(entries, i + 1,
                         IF c.status = "Ok" THEN Append(connectors, c)
                         ELSE connectors)

InventoryNewOf(dir) ==
    IF dir.state = "not_dir"
    THEN [status |-> "Err", kind |-> "IO",
          msg |-> "inventory requires a valid path as argument"]
    ELSE IF dir.state = "unreadable"
    THEN [status |-> "Err", kind |-> "IO", msg |-> "unable to read directory"]
    ELSE LoadEntries(dir.entries, 1, <<>>)

\* .iter().find(|c| c.name == name): the index of the first connector of
\* that name, 0 for none.
RECURSIVE FindConnector(_, _, _)
FindConnector(connectors, name, i) ==
    IF i > Len(connectors) THEN 0
    ELSE IF connectors[i].name = name THEN i
    ELSE FindConnector(connectors, name, i + 1)

CreateConnectorOf(connectors, name) ==
    LET i == FindConnector(connectors, name, 1)
    IN  IF i = 0
        THEN [status |-> "Err", kind |-> "Connector",
              msg |-> "connector not found", called |-> {}]
        ELSE [status |-> "factory", called |-> {connectors[i].factory}]

InitPlugin ==
    /\ NoTarget
    /\ process = NoProcess
    /\ ret = NoCall
    /\ \E dir \in PluginDirs : arg = [op |-> "plugins", dir |-> dir]

TryWith ==
    /\ arg.op = "plugins"
    /\ ret = NoCall
    /\ \E path \in 1..Len(arg.dir.entries) :
          /\ arg.dir.entries[path].kind # "entry_error"
          /\ ret' = [op |-> "try_with", path |-> path,
                     res |-> try_with(arg.dir.entries[path], path)]
    /\ UNCHANGED <<envVars, walkVars, infoVars, inst, first, arg, process>>

InventoryNew ==
    /\ arg.op = "plugins"
    /\ ret = NoCall
    /\ ret' = [op |-> "new", res |-> InventoryNewOf(arg.dir),
               last |-> NoCall, called |-> {}]
    /\ UNCHANGED <<envVars, walkVars, infoVars, inst, first, arg, process>>

CreateConnector ==
    /\ ret.op = "new"
    /\ ret.res.status = "Ok"
    /\ ret.last = NoCall
    /\ \E name \in 1..2 :
          LET c == CreateConnectorOf(ret.res.connectors, name)
          IN  ret' = [ret EXCEPT
                        !.last = [op |-> "create_connector", name |-> name,
                                  status |-> c.status],
                        !.called = @ \cup c.called]
    /\ UNCHANGED <<envVars, walkVars, infoVars, inst, first, arg, process>>

NextPlugin ==
    \/ TryWith
    \/ InventoryNew
    \/ CreateConnector

SpecPlugin == InitPlugin /\ [][NextPlugin]_vars

\* The files of the directory that are plugins of the current version.
MatchingPaths ==
    {p \in 1..Len(arg.dir.entries) :
        /\ arg.dir.entries[p].kind = "plugin"
        /\ arg.dir.entries[p].connector_version = MEMFLOW_CONNECTOR_VERSION}

MismatchingPaths ==
    {p \in 1..Len(arg.dir.entries) :
        /\ arg.dir.entries[p].kind = "plugin"
        /\ arg.dir.entries[p].connector_version # MEMFLOW_CONNECTOR_VERSION}

\* C22: a plugin whose connector_version differs from
\* MEMFLOW_CONNECTOR_VERSION is never loaded: try_with returns
\* Error::Connector for it, ConnectorInventory::new skips it without
\* failing (it fails only for the directory or an unreadable entry), every
\* connector of an inventory comes from a plugin of the current version,
\* and create_connector calls the factory of no mismatching plugin.
C22_MismatchNeverLoaded ==
    /\ (ret.op = "try_with" /\ ret.path \in MismatchingPaths) =>
          /\ ret.res.status = "Err"
          /\ ret.res.kind = "Connector"
    /\ ret.op = "new" =>
          /\ ret.res.status = "Ok" <=>
                /\ arg.dir.state = "dir"
                /\ \A p \in 1..Len(arg.dir.entries) :
                      arg.dir.entries[p].kind # "entry_error"
          /\ ret.res.status = "Ok" =>
                /\ {ret.res.connectors[i].factory :
                       i \in 1..Len(ret.res.connectors)} = MatchingPaths
                /\ Len(ret.res.connectors) = Cardinality(MatchingPaths)
                /\ \A i \in 1..Len(ret.res.connectors) :
                      ret.res.connectors[i].name
                         = arg.dir.entries[ret.res.connectors[i].factory].name
          /\ ret.called \cap MismatchingPaths = {}
          /\ ret.called \subseteq MatchingPaths

C22_FactoryBehindMismatchCalled ==
    /\ ret.op = "new"
    /\ ret.last # NoCall
    /\ 1 \in MismatchingPaths
    /\ arg.dir.entries[1].name = ret.last.name
    /\ ret.called = {2}

\* The entries the last module_list_callback call enumerated over.
CallEntries == EntriesFor(process, arg.target_arch)

\* The modules among the first n entries that resolve, in list order.
ResolvingUpTo(es, n) ==
    LET ok == SelectSeq(SubSeq(es, 1, n), LAMBDA e : e.kind = "Ok")
    IN  [i \in 1..Len(ok) |->
            [address |-> ok[i].address, arch |-> ok[i].arch, name |-> ok[i].name]]

\* C23: in module_list_callback an entry whose module_by_address fails
\* with PartialData is skipped: it is not passed to the caller's callback,
\* the enumeration goes on past it (it ends only at the end of the list,
\* at a failure of the address walk, at another error or at the
\* callback's false), and the modules delivered are exactly the resolving
\* entries reached, in list order; with a callback that never stops and
\* no other failure these are all resolving entries of the list.
C23_PartialDataSkipped ==
    (arg.op = "module_list_callback" /\ ret # NoCall) =>
        LET es == CallEntries
            w == ret.walk
        IN  /\ ret.value = ResolvingUpTo(es, w.n)
            /\ \A i \in 1..w.n :
                  es[i].kind = "PartialData" =>
                     /\ \A j \in 1..Len(ret.value) : ret.value[j].address # es[i].address
                     /\ \/ i < w.n
                        \/ w.n = Len(es)
                        \/ process.fail_at = w.n + 1
            /\ (/\ arg.callback.stop_at = 0
                /\ process.fail_at = 0
                /\ \A i \in 1..Len(es) : es[i].kind # "Unknown") =>
                  /\ ret.status = "Ok"
                  /\ ret.value = ResolvingUpTo(es, Len(es))

C23_ModuleAfterHoleDelivered ==
    /\ arg.op = "module_list_callback"
    /\ ret # NoCall
    /\ Len(CallEntries) = 3
    /\ CallEntries[1].kind = "Ok"
    /\ CallEntries[2].kind = "PartialData"
    /\ CallEntries[3].kind = "Ok"
    /\ Len(ret.value) = 2
    /\ ret.value[1].address = CallEntries[1].address
    /\ ret.value[2].address = CallEntries[3].address

\* The entries e0 = list_start, e1, ... reached through Flink before the
\* list returns to list_start; <<>> when it does not return to it
\* through readable, distinct entries.
RECURSIVE CycleFrom(_, _)
CycleFrom(a, seen) ==
    IF a \notin EntryAddrs \/ a \in {seen[i] : i \in 1..Len(seen)} THEN <<>>
    ELSE IF mem[a] = list_start THEN Append(seen, a)
    ELSE CycleFrom(mem[a], Append(seen, a))

\* The circular list target memory holds, if it is well formed: it
\* closes at list_start and every Blink is readable and non-null.
CircularList ==
    LET c == CycleFrom(list_start, <<>>)
    IN  IF \A i \in 1..Len(c) :
              mem[c[i] + offsets.list_blink] \notin {NULL, ReadErr}
        THEN c ELSE <<>>

\* C24: for a well-formed circular list of N entries e0 = list_start, ...,
\* e(N-1) and a callback that always returns true,
\* process_address_list_callback emits exactly the N - 1 addresses
\* e0 - eproc_link, ..., e(N-2) - eproc_link in Flink order and returns
\* Ok; the entry whose Flink is list_start is never emitted.
C24_CircularListEmitsAllButLast ==
    LET c == CircularList
        N == Len(c)
    IN  (N >= 1 /\ pc # "idle" /\ ~stopped) =>
           /\ calls <= N - 1
           /\ emitCount[c[N] - offsets.eproc_link] = 0
           /\ emitted = [i \in 1..calls |-> c[i] - offsets.eproc_link]
           /\ pc = "done" =>
                 /\ result = "Ok"
                 /\ calls = N - 1
                 /\ \A i \in 1..(N - 1) : emitCount[c[i] - offsets.eproc_link] = 1

C24_ThreeEntryListWalked ==
    /\ Len(CircularList) = 3
    /\ pc = "done"
    /\ ~stopped
    /\ result = "Ok"
    /\ calls = 2

(***************************************************************************)
(* aarch64 find(mem), start_block/aarch64.rs:40-59.  A buffer is its       *)
(* length in bytes and the content of each page it covers, the last one    *)
(* possibly cut short; a page's content is the first entry and the second  *)
(* half find_pt looks at.                                                   *)
(***************************************************************************)
\* Most pages a scanned buffer covers.
MaxPages == 3

\* aarch64::ARCH.page_size()
Aarch64PageSize == 4096

\* A page table as find_pt accepts it at page index j.
PageTableFor(j) ==
    [pte0 |-> U64(3843, 5, 0, 0),
     half |-> [i \in 1..HalfLen |->
                 IF i = 1 THEN U64(3843, PhysBaseFrames + j, 0, 0)
                 ELSE U64(1795, 7, 0, 0)]]

ZeroPage ==
    [pte0 |-> U64(0, 0, 0, 0), half |-> [i \in 1..HalfLen |-> U64(0, 0, 0, 0)]]

\* A page table of index 0 with one kernel entry too few.
SparsePage ==
    [pte0 |-> U64(3843, 5, 0, 0),
     half |-> [i \in 1..HalfLen |->
                 IF i = 1 THEN U64(3843, PhysBaseFrames, 0, 0)
                 ELSE IF i <= 6 THEN U64(1795, 7, 0, 0)
                 ELSE U64(0, 0, 0, 0)]]

PageContents ==
    {PageTableFor(j) : j \in 0..(MaxPages - 1)} \cup {ZeroPage, SparsePage}

\* Buffers: k whole pages, then nothing or half a page.
FindBuffers ==
    UNION { { [len |-> k * Aarch64PageSize + t * (Aarch64PageSize \div 2),
               pages |-> p] :
              p \in [1..(k + t) -> PageContents] } :
            k \in 0..MaxPages, t \in 0..1 }

\* mem.chunks_exact(page_size): the number of whole chunks.
ChunksExact(len, size) == len \div size

\* .last() in place of .next()
NextOf_Last(s) == IF s = <<>> THEN <<>> ELSE <<s[Len(s)]>>

\* Iterator::next(): the first item, if any.
NextOf(s) == IF s = <<>> THEN <<>> ELSE <<s[1]>>

\* .enumerate().filter_map(|(i, c)| find_pt(PHYS_BASE + i * page_size, c))
RECURSIVE FilterMapFindPt(_, _, _)
FilterMapFindPt(pages, i, n) ==
    IF i >= n THEN <<>>
    ELSE find_pt(U64(0, PhysBaseFrames + i, 0, 0),
                 pages[i + 1].pte0, pages[i + 1].half)
            \o FilterMapFindPt(pages, i + 1, n)

find(buf) ==
    LET found == NextOf(FilterMapFindPt(buf.pages, 0,
                                        ChunksExact(buf.len, Aarch64PageSize)))
    IN  IF found = <<>>
        THEN [op |-> "find", status |-> "Err", kind |-> "NotFound"]
        ELSE [op |-> "find", status |-> "Ok", arch |-> AARCH64,
              kernel_hint |-> NULL, dtb |-> found[1]]

InitFind ==
    /\ NoTarget
    /\ process = NoProcess
    /\ ret = NoCall
    /\ \E buf \in FindBuffers : arg = [op |-> "find", mem |-> buf]

Find ==
    /\ arg.op = "find"
    /\ ret = NoCall
    /\ ret' = find(arg.mem)
    /\ UNCHANGED <<envVars, walkVars, infoVars, inst, first, arg, process>>

NextFind == Find

SpecFind == InitFind /\ [][NextFind]_vars

\* The indices of the whole pages of the buffer that find_pt accepts.
AcceptedPages ==
    {i \in 0..((arg.mem.len \div 4096) - 1) :
        find_pt(U64(0, PhysBaseFrames + i, 0, 0),
                arg.mem.pages[i + 1].pte0, arg.mem.pages[i + 1].half) # <<>>}

\* C25: aarch64 find(mem) looks at the whole 4 KB pages of the buffer in
\* ascending order, a trailing partial page left out, and returns the
\* start block of the first page find_pt accepts, with
\* dtb = 1 GB + page_index * 4096 and kernel_hint = NULL; it returns
\* NotFound if and only if no whole page of the buffer is accepted.
C25_FirstAcceptedPage ==
    ret.op = "find" =>
        /\ (ret.status = "Err") <=> (AcceptedPages = {})
        /\ ret.status = "Err" => ret.kind = "NotFound"
        /\ ret.status = "Ok" =>
              /\ \E i \in AcceptedPages :
                    /\ \A j \in AcceptedPages : i <= j
                    /\ ret.dtb = U64(0, PhysBaseFrames + i, 0, 0)
              /\ ret.kernel_hint = NULL
              /\ ret.arch = AARCH64

C25_SecondOfThreePagesFound ==
    /\ ret.op = "find"
    /\ ret.status = "Ok"
    /\ AcceptedPages = {1, 2}
    /\ arg.mem.len = 3 * 4096 + 2048
    /\ ret.dtb = U64(0, PhysBaseFrames + 1, 0, 0)

(***************************************************************************)
(* OsInstance (memflow plugins/os/instance.rs): the boxed OS object behind *)
(* an instance, from OsInstanceBuilder::build to the end of the instance.  *)
(* The model counts what happens to the box: calls of the vtable's drop    *)
(* on it, hand-overs of it to a consuming plugin function, destructions of *)
(* the object in it.                                                       *)
(***************************************************************************)
\* Most borrowing calls made on an instance before it is consumed.
MaxBorrows == 3

\* build(): Box::into_raw(Box::new(self.instance)), library: None
Built(keyboard) ==
    [op |-> "os_instance", alive |-> TRUE, keyboard |-> keyboard,
     object |-> "boxed", borrows |-> <<>>, last |-> "build",
     status |-> "Ok", kind |-> "none",
     vdrops |-> 0, handovers |-> 0, destroyed |-> 0]

\* (self.vtable.base.drop)(self.instance): the box is freed with its object.
VtableDrop(o) ==
    [o EXCEPT !.vdrops = @ + 1, !.destroyed = @ + 1, !.object = "freed"]

\* An instance that is dropped although it was forgotten.
DropGlue_Always(o, forgotten) == VtableDrop([o EXCEPT !.alive = FALSE])

\* The end of an OsInstance value: Drop for OsInstance runs unless the
\* value went through std::mem::forget.
DropGlue(o, forgotten) ==
    IF forgotten THEN [o EXCEPT !.alive = FALSE]
    ELSE VtableDrop([o EXCEPT !.alive = FALSE])

\* c_into_process_by_info and the plugin's into_keyboard: Box::from_raw
\* takes the box over; the object moves into the result on success and is
\* destroyed by the consuming call on failure.
PluginInto(o, target, ok) ==
    IF ok
    THEN [o EXCEPT !.handovers = @ + 1, !.object = target,
                   !.status = "Ok", !.kind = "none"]
    ELSE [o EXCEPT !.handovers = @ + 1, !.object = "freed",
                   !.destroyed = @ + 1,
                   !.status = "Err", !.kind = "Plugin"]

\* OsInstance::into_process_by_info, instance.rs:236-246
into_process_by_info(o, ok) ==
    DropGlue([PluginInto(o, "in_process", ok) EXCEPT
                 !.last = "into_process_by_info"], TRUE)

\* OsInstance::into_keyboard, instance.rs:293-302
into_keyboard(o, ok) ==
    IF ~o.keyboard
    THEN DropGlue([o EXCEPT !.last = "into_keyboard", !.status = "Err",
                            !.kind = "UnsupportedOptionalFeature"], FALSE)
    ELSE DropGlue([PluginInto(o, "in_keyboard", ok) EXCEPT
                      !.last = "into_keyboard"], TRUE)

InitOs ==
    /\ NoTarget
    /\ process = NoProcess
    /\ ret = NoCall
    /\ \E keyboard \in BOOLEAN : arg = [op |-> "os_instance", keyboard |-> keyboard]

OsBuild ==
    /\ arg.op = "os_instance"
    /\ ret = NoCall
    /\ ret' = Built(arg.keyboard)
    /\ UNCHANGED <<envVars, walkVars, infoVars, inst, first, arg, process>>

\* process_by_info and keyboard borrow the instance: the box stays.
OsBorrow ==
    /\ ret.op = "os_instance"
    /\ ret.alive
    /\ Len(ret.borrows) < MaxBorrows
    /\ \E call \in {"process_by_info", "keyboard"}, ok \in BOOLEAN :
          ret' = [ret EXCEPT
                    !.borrows = Append(@, call),
                    !.last = call,
                    !.status = IF ok /\ (call = "process_by_info" \/ ret.keyboard)
                               THEN "Ok" ELSE "Err",
                    !.kind = IF call = "keyboard" /\ ~ret.keyboard
                             THEN "UnsupportedOptionalFeature"
                             ELSE IF ok THEN "none" ELSE "Plugin"]
    /\ UNCHANGED <<envVars, walkVars, infoVars, inst, first, arg, process>>

OsDrop ==
    /\ ret.op = "os_instance"
    /\ ret.alive
    /\ ret' = DropGlue([ret EXCEPT !.last = "drop", !.status = "Ok",
                                   !.kind = "none"], FALSE)
    /\ UNCHANGED <<envVars, walkVars, infoVars, inst, first, arg, process>>

OsIntoProcessByInfo ==
    /\ ret.op = "os_instance"
    /\ ret.alive
    /\ \E ok \in BOOLEAN : ret' = into_process_by_info(ret, ok)
    /\ UNCHANGED <<envVars, walkVars, infoVars, inst, first, arg, process>>

OsIntoKeyboard ==
    /\ ret.op = "os_instance"
    /\ ret.alive
    /\ \E ok \in BOOLEAN : ret' = into_keyboard(ret, ok)
    /\ UNCHANGED <<envVars, walkVars, infoVars, inst, first, arg, process>>

NextOs ==
    \/ OsBuild
    \/ OsBorrow
    \/ OsDrop
    \/ OsIntoProcessByInfo
    \/ OsIntoKeyboard

SpecOs == InitOs /\ [][NextOs]_vars

\* C27: the boxed OS object of an OsInstance is released or handed over
\* exactly once on every path: it is untouched while the instance lives;
\* a plain drop releases it through the vtable drop; into_process_by_info
\* and into_keyboard hand it to the plugin function and skip the drop,
\* whether the plugin call succeeds or fails; into_keyboard without the
\* keyboard feature returns UnsupportedOptionalFeature and releases it
\* through the drop.  The object is never destroyed twice and never left
\* in a box nobody owns.
C27_BoxReleasedOnce ==
    ret.op = "os_instance" =>
        /\ ret.destroyed <= 1
        /\ ret.alive =>
              /\ ret.vdrops = 0 /\ ret.handovers = 0
              /\ ret.object = "boxed"
        /\ ~ret.alive =>
              /\ ret.vdrops + ret.handovers = 1
              /\ ret.object # "boxed"
              /\ ret.last = "drop" => ret.vdrops = 1
              /\ ret.last = "into_process_by_info" =>
                    /\ ret.handovers = 1
                    /\ ret.object = IF ret.status = "Ok" THEN "in_process" ELSE "freed"
              /\ (ret.last = "into_keyboard" /\ ret.keyboard) =>
                    /\ ret.handovers = 1
                    /\ ret.object = IF ret.status = "Ok" THEN "in_keyboard" ELSE "freed"
              /\ (ret.last = "into_keyboard" /\ ~ret.keyboard) =>
                    /\ ret.status = "Err"
                    /\ ret.kind = "UnsupportedOptionalFeature"
                    /\ ret.vdrops = 1

C27_FailedIntoProcessAfterBorrows ==
    /\ ret.op = "os_instance"
    /\ ~ret.alive
    /\ ret.last = "into_process_by_info"
    /\ ret.status = "Err"
    /\ Len(ret.borrows) = 2
    /\ ret.handovers = 1
    /\ ret.vdrops = 0
    /\ ret.destroyed = 1

\* What process_info_base_by_address gives for the address of the last
\* process_info_by_address call.
BaseOfCall == BaseByAddress(arg.address).info

\* C26: process_info_by_address fails only when reading the base fields
\* fails: whenever process_info_base_by_address succeeds it returns Ok,
\* with the unrefined base info if a later step failed, and otherwise
\* with an info that differs from the base info at most in name, the
\* refined name having the base name as a prefix.
C26_FailsOnlyOnBaseFailure ==
    (arg.op = "process_info_by_address" /\ ret # NoCall) =>
        /\ ret.status = "Err" <=> BaseOfCall.status # "Ok"
        /\ ret.status = "Ok" =>
              /\ [ret.value[1] EXCEPT !.name = BaseOfCall.name] = BaseOfCall
              /\ starts_with(ret.value[1].name, NameOfCell(BaseOfCall.name))

====
